---------------------------- MODULE Spec2Model ----------------------------
(***************************************************************************)
(* A model of broom, a git branch housekeeping tool (ggalmazor/broom).     *)
(*                                                                         *)
(*   src/src/git/branches.ts    (lines 296-580: the current implementation)*)
(*   src/src/commands/sweep.ts  (lines 124-331: the current implementation)*)
(*                                                                         *)
(* git itself is the environment.  The repository is a record of what each *)
(* git query answers (exit success and trimmed stdout); the program's      *)
(* behaviour is what it does with those answers.  Every `await git(...)`   *)
(* is a suspension point: an action of the model is the code that runs     *)
(* between two suspension points (JavaScript runs it without interleaving).*)
(*                                                                         *)
(* Text is modelled as a sequence of atoms (indivisible runs of            *)
(* characters); splitting, trimming, prefix tests and substring tests are  *)
(* computed on those sequences.                                            *)
(***************************************************************************)
EXTENDS Integers, Sequences, FiniteSets, TLC

(***************************************************************************)
(* Bounds of the model.                                                    *)
(***************************************************************************)
\* Number of branch names git may list in an analysis pass ("main" included).
MaxBranches == 3
\* Number of files a branch may have touched since its merge base.
MaxFiles == 2
\* Number of local branches ("main" included) in a fast-forward pass.
MaxFFBranches == 3
\* Number of linked worktrees beside the main working tree.
MaxLinked == 1

(***************************************************************************)
(* JavaScript helpers.                                                     *)
(***************************************************************************)
Range(s) == {s[i] : i \in 1..Len(s)}

\* `arr[n] ?? ''` (n counted from 1 here): a missing element reads as ''.
Nth(s, n) == IF n <= Len(s) THEN s[n] ELSE ""

Digits == <<"0", "1", "2", "3", "4", "5", "6", "7", "8", "9">>

IsDigit(c) == c \in Range(Digits)

DigitVal(c) == (CHOOSE i \in 1..Len(Digits) : Digits[i] = c) - 1

RECURSIVE ParseDigits(_, _, _)
\* The digits of chars from position i on, accumulated into acc, until the
\* first character that is no digit.
ParseDigits(chars, i, acc) ==
    IF i > Len(chars) \/ ~IsDigit(chars[i])
    THEN acc
    ELSE ParseDigits(chars, i + 1, acc * 10 + DigitVal(chars[i]))

\* parseInt(str, 10) on a trimmed string: an optional sign, then the leading
\* digits; NaN when there is no leading digit.
ParseInt(chars) ==
    LET signed == chars # <<>> /\ chars[1] \in {"-", "+"}
        first  == IF signed THEN 2 ELSE 1
        mag    == ParseDigits(chars, first, 0)
    IN  IF first > Len(chars) \/ ~IsDigit(chars[first])
        THEN [nan |-> TRUE, val |-> 0]
        ELSE [nan |-> FALSE, val |-> IF signed /\ chars[1] = "-" THEN 0 - mag ELSE mag]

\* `x >= 0` in place of `x > 0`.
GreaterOrEqualZero(n) == ~n.nan /\ n.val >= 0

\* `x > 0` for a JavaScript number: every comparison with NaN is false.
GreaterThanZero(n) == ~n.nan /\ n.val > 0

(***************************************************************************)
(* The repository as seen through git queries.                             *)
(***************************************************************************)
TRUNK == "main"

\* Branch names in the order `git branch --list` prints them (by refname).
AllNames == <<"feature", "main", "topic", "wip", "zeta">>

Names == {AllNames[i] : i \in 1..MaxBranches}

FileNames == <<"a.txt", "b.txt", "c.txt", "d.txt">>

Ok(out) == [success |-> TRUE, stdout |-> out]

\* A failed command: git writes its message to stderr, stdout is empty.
Failed == [success |-> FALSE, stdout |-> <<>>]

\* `git log --left-right --cherry-mark --format=%m main...<branch>`: one mark per
\* commit: "<" main side, ">" unique to the branch, "=" equivalent patch.
CherryOutputs ==
    { Ok(<<>>), Ok(<<"<", "=">>), Ok(<<"<", ">">>), Ok(<<"=", ">">>), Ok(<<"<">>),
      Failed }

\* `git rev-list --count A..B`
CountOutputs == { Ok(<<"0">>), Ok(<<"1", "2">>), Failed }

\* `git ls-tree <ref> -- <file>`: "<mode> blob <sha>\t<file>", or nothing when the
\* file is absent from that tree.
LsLine(sha, file) == Ok(<<"100644", "blob", sha, file>>)

\* What the two ls-tree queries of one touched file answer.
LsAnswers(file) ==
    { [branch |-> LsLine("sha1", file), main |-> LsLine("sha1", file)],
      [branch |-> LsLine("sha1", file), main |-> LsLine("sha2", file)],
      [branch |-> LsLine("sha1", file), main |-> Ok(<<>>)],
      [branch |-> Ok(<<>>),             main |-> LsLine("sha2", file)],
      [branch |-> Failed,               main |-> LsLine("sha2", file)],
      [branch |-> LsLine("sha1", file), main |-> Failed] }

\* `git diff-tree -r --name-only <base> <branch>` together with the ls-tree answers
\* for each file it names.
ContentAnswers ==
    { [diffTree |-> Failed, ls |-> <<>>] } \cup
    UNION { { [diffTree |-> Ok(SubSeq(FileNames, 1, k)), ls |-> l] :
                l \in { f \in [1..k -> UNION {LsAnswers(FileNames[j]) : j \in 1..k}] :
                          \A j \in 1..k : f[j] \in LsAnswers(FileNames[j]) } } :
            k \in 0..MaxFiles }

\* Everything git answers about one branch.
RichProfiles ==
    { [ ancestry  |-> a, cherry |-> c, mergeBase |-> m, content |-> t,
        revParse  |-> r, ahead  |-> h, behind    |-> b ] :
        a \in {Ok(<<>>), Failed}, c \in CherryOutputs,
        m \in {Ok(<<"base">>), Failed}, t \in ContentAnswers,
        r \in {Ok(<<"tip">>), Failed}, h \in CountOutputs, b \in CountOutputs }

OneFile(ans) == [diffTree |-> Ok(<<FileNames[1]>>), ls |-> <<ans>>]

Profile(a, c, m, t, r, h, b) ==
    [ ancestry |-> a, cherry |-> c, mergeBase |-> m, content |-> t,
      revParse |-> r, ahead |-> h, behind |-> b ]

\* The repositories the test suite builds (tests/git/branches.test.ts): a branch
\* merged by merge commit, rebased, squash-merged, with unpushed commits, needing a
\* rebase, and active.
FixtureProfiles ==
    LET same == [branch |-> LsLine("sha1", FileNames[1]), main |-> LsLine("sha1", FileNames[1])]
        diff == [branch |-> LsLine("sha1", FileNames[1]), main |-> Ok(<<>>)]
    IN  { Profile(Ok(<<>>), Ok(<<>>), Ok(<<"base">>), OneFile(same), Failed, Failed, Ok(<<"1", "2">>)),
          Profile(Failed, Ok(<<"<", "=">>), Ok(<<"base">>), OneFile(same), Failed, Failed, Ok(<<"1", "2">>)),
          Profile(Failed, Ok(<<"<", ">">>), Ok(<<"base">>), OneFile(same), Failed, Failed, Ok(<<"1", "2">>)),
          Profile(Failed, Ok(<<">">>), Ok(<<"base">>), OneFile(diff), Ok(<<"tip">>), Ok(<<"1", "2">>), Ok(<<"0">>)),
          Profile(Failed, Ok(<<"<", ">">>), Ok(<<"base">>), OneFile(diff), Ok(<<"tip">>), Ok(<<"0">>), Ok(<<"1", "2">>)),
          Profile(Failed, Ok(<<">">>), Ok(<<"base">>), OneFile(diff), Ok(<<"tip">>), Ok(<<"0">>), Ok(<<"0">>)) }

(***************************************************************************)
(* State.                                                                  *)
(***************************************************************************)
VARIABLES
    \* --- the repository, as analyzeBranches queries it (never written by it)
    repo,        \* branch name -> what git answers about that branch
    listing,     \* stdout lines of `git branch --list --format=%(refname:short)`
    \* --- analyzeBranches (branches.ts:562-580)
    onProgress,  \* whether the caller passed a progress callback
    aPc,         \* "start" | "awaiting" (Promise.all pending) | "returned"
    branches,    \* const branches = await getLocalBranches()
    total,       \* const total = branches.length
    current,     \* let current = 0
    tasks,       \* one async task per branch: where it is suspended, and its locals
    values,      \* the values Promise.all has collected, by index
    progress,    \* the events the callback has received, in the order received
    results,     \* what analyzeBranches returned
    \* --- the repository, as fastForwardBranches sees it
    ffRepo,      \* tracking state of each branch, the worktrees, the working directory
    \* --- fastForwardBranches (branches.ts:376-430)
    ffPc,        \* "start" | "listing" | "fetching" | "returned"
    worktreeBranches,  \* new Set(worktrees.keys())
    ffIdx,       \* index of the listing line whose fetch is in flight
    ffResults,   \* const results: FastForwardResult[]
    fetches,     \* the fetch commands issued so far: [src, dst, state, stdout, stderr]
    \* --- the repository, as the deletion step changes it
    sRepo,       \* local refs, branches held by linked worktrees, the HEAD branch
    \* --- sweepCommand / sweepBranchesNonInteractive (sweep.ts:137-331)
    mode,        \* "interactive" (sweepCommand) | "nonInteractive"
    inRepo,      \* what isGitRepo() answers
    worktrees,   \* const worktrees = await getWorktrees(): branch -> { path, branch }
    selected,    \* the Checkbox answer, or the argument of the non-interactive sweep
    confirmed,   \* "unasked" | "yes" | "no": the Confirm answer
    dPc,         \* where the command is suspended, "finished", "thrown" or "exited"
    dIdx,        \* index in selected of the branch being deleted
    failed,      \* let failed = 0
    deletedOut,  \* branches printed as "deleted"
    errorsOut,   \* branches printed as "failed", with the message's kind
    cmdLog,      \* the checks and commands issued so far, with their state
    thrown       \* the error that escaped the command, "none" when none did

analyzeVars == <<repo, listing, onProgress, aPc, branches, total, current, tasks,
                 values, progress, results>>

ffVars == <<ffRepo, ffPc, worktreeBranches, ffIdx, ffResults, fetches>>

sweepVars == <<sRepo, mode, inRepo, worktrees, selected, confirmed, dPc, dIdx, failed,
               deletedOut, errorsOut, cmdLog, thrown>>

vars == <<analyzeVars, ffVars, sweepVars>>

(***************************************************************************)
(* getLocalBranches (branches.ts:352-358).                                 *)
(***************************************************************************)
\* ''.split('\n') is [''] and never []: an empty stdout is one empty line.
SplitLines(out) == IF out = <<>> THEN <<"">> ELSE out

\* A listed name that is dropped although it is neither empty nor the trunk.
GetLocalBranchesKeepingTrunk(out) == SelectSeq(SplitLines(out), LAMBDA l : l # "")

\* refname:short carries no surrounding whitespace, so the per-line trim changes
\* nothing; the filter is what decides.
GetLocalBranches(out) == SelectSeq(SplitLines(out), LAMBDA l : l # "" /\ l # TRUNK)

(***************************************************************************)
(* The merge strategies and the divergence checks, as functions of git's   *)
(* answers.                                                                *)
(***************************************************************************)
\* isMergedByAncestry: the exit status of `git merge-base --is-ancestor`.
IsMergedByAncestry(res) == res.success

\* isMergedByCherryMark failing closed: a failed log reports "not merged".
IsMergedByCherryMarkFailClosed(res) ==
    LET branchSide == SelectSeq(res.stdout, LAMBDA l : l = ">" \/ l = "=")
    IN  /\ res.success
        /\ \A k \in 1..Len(branchSide) : branchSide[k] = "="

\* isMergedByCherryMark with the emptiness shortcuts dropped.
IsMergedByCherryMarkNoShortcut(res) ==
    LET branchSide == SelectSeq(res.stdout, LAMBDA l : l = ">" \/ l = "=")
    IN  /\ branchSide # <<>>
        /\ \A k \in 1..Len(branchSide) : branchSide[k] = "="

\* isMergedByCherryMark: `success` is never read.
IsMergedByCherryMark(res) ==
    IF res.stdout = <<>> THEN TRUE
    ELSE LET lines      == SelectSeq(res.stdout, LAMBDA l : l # "")
             branchSide == SelectSeq(lines, LAMBDA l : l = ">" \/ l = "=")
         IN  IF branchSide = <<>> THEN TRUE
             ELSE \A k \in 1..Len(branchSide) : branchSide[k] = "="

\* str.split(/\s+/): the whitespace-separated words; '' splits into [''].
SplitWs(out) == IF out = <<>> THEN <<"">> ELSE out

\* `blob.stdout.split(/\s+/)[2] ?? ''`: the third word of an ls-tree line.
BlobSha(res) == Nth(SplitWs(res.stdout), 3)

\* The loop body of isMergedByContent: this file shows the branch is not merged.
FileDiffers(branchBlob, mainBlob) ==
    BlobSha(branchBlob) # "" /\ BlobSha(branchBlob) # BlobSha(mainBlob)

RECURSIVE ContentLoop(_, _)
\* The `for (const file of files)` loop from the k-th file on: false at the first
\* file that differs, true when the files run out.
ContentLoop(c, k) ==
    IF k > Len(SelectSeq(c.diffTree.stdout, LAMBDA l : l # "")) THEN TRUE
    ELSE IF FileDiffers(c.ls[k].branch, c.ls[k].main) THEN FALSE
    ELSE ContentLoop(c, k + 1)

\* isMergedByContent as a whole, on the answers p of one branch.
IsMergedByContent(p) ==
    /\ p.mergeBase.success
    /\ p.content.diffTree.success
    /\ p.content.diffTree.stdout # <<>>
    /\ ContentLoop(p.content, 1)

\* A count that is never read.
CountNeverPositive(res) == FALSE

\* `x !== 0` in place of `x > 0`: NaN differs from zero.
CountIsNotZero(res) == LET n == ParseInt(res.stdout) IN n.nan \/ n.val # 0

\* hasUnpushedCommits / needsRebase: parseInt(stdout, 10) > 0.
CountIsPositive(res) == GreaterThanZero(ParseInt(res.stdout))

(***************************************************************************)
(* classifyBranch, one task per branch.                                    *)
(***************************************************************************)
Pending == [name |-> "", status |-> "pending"]

\* classifyBranch opening with its second strategy.
NewTaskStartingAtCherry ==
    [ pc |-> "cherry", status |-> "none", fidx |-> 0, branchBlob |-> Ok(<<>>),
      cmds |-> <<"log --cherry-mark">>,
      byAncestry |-> "pending", byCherry |-> "pending", byContent |-> "pending" ]

\* A task right after branches.map called its callback: the callback ran up to the
\* first await, inside isMergedByAncestry.
NewTask ==
    [ pc |-> "ancestry", status |-> "none", fidx |-> 0, branchBlob |-> Ok(<<>>),
      cmds |-> <<"merge-base --is-ancestor">>,
      byAncestry |-> "pending", byCherry |-> "pending", byContent |-> "pending" ]

\* A classifyBranch promise that never settles.
NeverClassified(t, s) == t

\* `return 'merged'` etc.: classifyBranch's promise resolves with the status.
Classified(t, s) == [t EXCEPT !.pc = "classified", !.status = s]

\* Suspend on the next git command.
Issue(t, pc, cmd) == [t EXCEPT !.pc = pc, !.cmds = Append(@, cmd)]

\* classifyBranch without its third strategy: from the equivalent-patch check
\* straight on to hasUnpushedCommits.
AfterCherryFalseSkippingContent(t) ==
    Issue([t EXCEPT !.byCherry = "false"], "revParse", "rev-parse --verify origin/")

\* isMergedByCherryMark returned false: classifyBranch goes on to isMergedByContent,
\* which suspends on its merge-base query.
AfterCherryFalse(t) == Issue([t EXCEPT !.byCherry = "false"], "mergeBase", "merge-base")

\* classifyBranch without hasUnpushedCommits: from the content check straight on to
\* needsRebase.
ContentFalseSkippingUnpushed(t) ==
    Issue([t EXCEPT !.byContent = "false"], "behind", "rev-list --count ..main")

\* hasUnpushedCommits refreshing origin/<branch> before it looks at it: a command
\* that writes a remote-tracking ref.
ContentFalseFetchingFirst(t) == Issue([t EXCEPT !.byContent = "false"], "revParse", "fetch origin")

\* isMergedByContent returned false: classifyBranch goes on to hasUnpushedCommits.
ContentFalse(t) == Issue([t EXCEPT !.byContent = "false"], "revParse", "rev-parse --verify origin/")

\* Promise.all stores each task's value at the task's index.
SettleInCompletionOrder(vals, i, v) ==
    LET k == CHOOSE j \in 1..Len(vals) :
                 vals[j] = Pending /\ \A h \in 1..(j - 1) : vals[h] # Pending
    IN  [vals EXCEPT ![k] = v]

Settle(vals, i, v) == [vals EXCEPT ![i] = v]

\* The event of the k-th completion carrying a stale counter (current++).
ProgressEventPostIncrement(branch, cur, tot) ==
    [branch |-> branch, current |-> cur, total |-> tot]

\* `{ branch, current: ++current, total }`
ProgressEvent(branch, cur, tot) ==
    [branch |-> branch, current |-> cur + 1, total |-> tot]

\* analyzeBranches up to Promise.all: enumerate, return [] when there is nothing to
\* do, else start one task per branch.
GetLocalBranchesDone ==
    /\ aPc = "start"
    /\ LET bs == GetLocalBranches(listing)
       IN  /\ branches' = bs
           /\ IF bs = <<>>
              THEN /\ aPc' = "returned"
                   /\ results' = <<>>
                   /\ UNCHANGED <<total, current, tasks, values>>
              ELSE /\ aPc' = "awaiting"
                   /\ total' = Len(bs)
                   /\ current' = 0
                   /\ tasks' = [i \in 1..Len(bs) |-> NewTask]
                   /\ values' = [i \in 1..Len(bs) |-> Pending]
                   /\ UNCHANGED results
    /\ UNCHANGED <<repo, listing, onProgress, progress, ffVars, sweepVars>>

TaskFrame == UNCHANGED <<repo, listing, onProgress, aPc, branches, total, current,
                         values, progress, results, ffVars, sweepVars>>

\* classifyBranch asking its second strategy although the first held.
AfterAncestryTrueAskingCherry(t) ==
    Issue([t EXCEPT !.byAncestry = "true"], "cherry", "log --cherry-mark")

\* `if (await isMergedByAncestry(branch)) return 'merged'` (branches.ts:544).
AfterAncestryTrue(t) == Classified([t EXCEPT !.byAncestry = "true"], "merged")

AncestryDone(i) ==
    LET t == tasks[i]
        r == repo[branches[i]].ancestry
    IN  /\ t.pc = "ancestry"
        /\ tasks' = [tasks EXCEPT ![i] =
              IF IsMergedByAncestry(r)
              THEN AfterAncestryTrue(t)
              ELSE Issue([t EXCEPT !.byAncestry = "false"], "cherry", "log --cherry-mark")]
        /\ TaskFrame

CherryDone(i) ==
    LET t == tasks[i]
        r == repo[branches[i]].cherry
    IN  /\ t.pc = "cherry"
        /\ tasks' = [tasks EXCEPT ![i] =
              IF IsMergedByCherryMark(r)
              THEN Classified([t EXCEPT !.byCherry = "true"], "merged")
              ELSE AfterCherryFalse(t)]
        /\ TaskFrame

\* isMergedByContent going on to diff-tree whatever the merge-base lookup answered.
AfterMergeBaseIgnoringFailure(t, r) == Issue(t, "diffTree", "diff-tree")

\* `if (!mergeBaseResult.success) return false` (branches.ts:493), else the
\* diff-tree against the merge base is issued.
AfterMergeBase(t, r) ==
    IF ~r.success THEN ContentFalse(t) ELSE Issue(t, "diffTree", "diff-tree")

MergeBaseDone(i) ==
    LET t == tasks[i]
        r == repo[branches[i]].mergeBase
    IN  /\ t.pc = "mergeBase"
        /\ tasks' = [tasks EXCEPT ![i] = AfterMergeBase(t, r)]
        /\ TaskFrame

DiffTreeDone(i) ==
    LET t == tasks[i]
        r == repo[branches[i]].content.diffTree
    IN  /\ t.pc = "diffTree"
        /\ tasks' = [tasks EXCEPT ![i] =
              IF ~r.success \/ r.stdout = <<>> THEN ContentFalse(t)
              ELSE Issue([t EXCEPT !.fidx = 1], "lsBranch", "ls-tree branch")]
        /\ TaskFrame

LsBranchDone(i) ==
    LET t == tasks[i]
        r == repo[branches[i]].content.ls[t.fidx].branch
    IN  /\ t.pc = "lsBranch"
        /\ tasks' = [tasks EXCEPT ![i] =
              Issue([t EXCEPT !.branchBlob = r], "lsMain", "ls-tree main")]
        /\ TaskFrame

LsMainDone(i) ==
    LET t     == tasks[i]
        c     == repo[branches[i]].content
        files == SelectSeq(c.diffTree.stdout, LAMBDA l : l # "")
        r     == c.ls[t.fidx].main
    IN  /\ t.pc = "lsMain"
        /\ tasks' = [tasks EXCEPT ![i] =
              IF FileDiffers(t.branchBlob, r) THEN ContentFalse(t)
              ELSE IF t.fidx < Len(files)
                   THEN Issue([t EXCEPT !.fidx = @ + 1], "lsBranch", "ls-tree branch")
                   ELSE Classified([t EXCEPT !.byContent = "true"], "merged")]
        /\ TaskFrame

RevParseDone(i) ==
    LET t == tasks[i]
        r == repo[branches[i]].revParse
    IN  /\ t.pc = "revParse"
        /\ tasks' = [tasks EXCEPT ![i] =
              IF ~r.success THEN Classified(t, "unpushed")
              ELSE Issue(t, "ahead", "rev-list --count origin/..")]
        /\ TaskFrame

AheadDone(i) ==
    LET t == tasks[i]
        r == repo[branches[i]].ahead
    IN  /\ t.pc = "ahead"
        /\ tasks' = [tasks EXCEPT ![i] =
              IF CountIsPositive(r) THEN Classified(t, "unpushed")
              ELSE Issue(t, "behind", "rev-list --count ..main")]
        /\ TaskFrame

BehindDone(i) ==
    LET t == tasks[i]
        r == repo[branches[i]].behind
    IN  /\ t.pc = "behind"
        /\ tasks' = [tasks EXCEPT ![i] =
              IF CountIsPositive(r) THEN Classified(t, "needs-rebase")
              ELSE Classified(t, "active")]
        /\ TaskFrame

\* The map callback after `await classifyBranch(branch)`: report, then resolve with
\* { name, status }.  With no callback `onProgress?.(...)` evaluates no argument, so
\* the counter stays put.
Report(i) ==
    LET t == tasks[i]
    IN  /\ t.pc = "classified"
        /\ IF onProgress
           THEN /\ current' = current + 1
                /\ progress' = Append(progress, ProgressEvent(branches[i], current, total))
           ELSE UNCHANGED <<current, progress>>
        /\ values' = Settle(values, i, [name |-> branches[i], status |-> t.status])
        /\ tasks' = [tasks EXCEPT ![i].pc = "done"]
        /\ UNCHANGED <<repo, listing, onProgress, aPc, branches, total, results, ffVars,
                       sweepVars>>

\* Promise.all resolving as soon as one task has, with whatever was collected.
ReturnAtFirstCompletion ==
    /\ aPc = "awaiting"
    /\ \E i \in 1..Len(tasks) : tasks[i].pc = "done"
    /\ results' = values
    /\ aPc' = "returned"
    /\ UNCHANGED <<repo, listing, onProgress, branches, total, current, tasks, values,
                   progress, ffVars, sweepVars>>

\* Promise.all resolves once every task has; analyzeBranches returns its array.
Return ==
    /\ aPc = "awaiting"
    /\ \A i \in 1..Len(tasks) : tasks[i].pc = "done"
    /\ results' = values
    /\ aPc' = "returned"
    /\ UNCHANGED <<repo, listing, onProgress, branches, total, current, tasks, values,
                   progress, ffVars, sweepVars>>

(***************************************************************************)
(* classifyBranch as a function of git's answers about one branch          *)
(* (branches.ts:516-550).                                                  *)
(***************************************************************************)
\* hasUnpushedCommits: true when origin/<branch> does not resolve, else whether
\* the branch is ahead of it.
HasUnpushedCommits(p) == IF ~p.revParse.success THEN TRUE ELSE CountIsPositive(p.ahead)

\* needsRebase: whether main has commits the branch lacks.
NeedsRebase(p) == CountIsPositive(p.behind)

\* classifyBranch: the first check that answers true decides.
ClassifyBranch(p) ==
    IF IsMergedByAncestry(p.ancestry) THEN "merged"
    ELSE IF IsMergedByCherryMark(p.cherry) THEN "merged"
    ELSE IF IsMergedByContent(p) THEN "merged"
    ELSE IF HasUnpushedCommits(p) THEN "unpushed"
    ELSE IF NeedsRebase(p) THEN "needs-rebase"
    ELSE "active"

\* analyzeBranches as a function of the repository: one BranchInfo per enumerated
\* branch, in enumeration order.
AnalyzeBranches(out, r) ==
    LET bs == GetLocalBranches(out)
    IN  [i \in 1..Len(bs) |-> [name |-> bs[i], status |-> ClassifyBranch(r[bs[i]])]]

TaskStep(i) ==
    \/ AncestryDone(i)
    \/ CherryDone(i)
    \/ MergeBaseDone(i)
    \/ DiffTreeDone(i)
    \/ LsBranchDone(i)
    \/ LsMainDone(i)
    \/ RevParseDone(i)
    \/ AheadDone(i)
    \/ BehindDone(i)
    \/ Report(i)

NextAnalyze ==
    \/ GetLocalBranchesDone
    \/ \E i \in 1..Len(tasks) : aPc = "awaiting" /\ TaskStep(i)
    \/ Return

\* Names in git's listing order.
SeqOf(S) == SelectSeq(AllNames, LAMBDA n : n \in S)

AnalyzeIdle ==
    /\ aPc = "start"
    /\ branches = <<>>
    /\ total = 0
    /\ current = 0
    /\ tasks = <<>>
    /\ values = <<>>
    /\ progress = <<>>
    /\ results = <<>>

\* The repository behind an analysis pass when no pass is modelled.
NoRepo ==
    /\ listing = <<>>
    /\ repo = <<>>
    /\ onProgress = FALSE

FFIdle ==
    /\ ffRepo = [track |-> <<>>, wts |-> <<>>, cwd |-> 0]
    /\ ffPc = "idle"
    /\ worktreeBranches = {}
    /\ ffIdx = 0
    /\ ffResults = <<>>
    /\ fetches = <<>>

SweepIdle ==
    /\ sRepo = [refs |-> {}, wts |-> {}, head |-> "detached"]
    /\ mode = "none"
    /\ inRepo = TRUE
    /\ worktrees = <<>>
    /\ selected = <<>>
    /\ confirmed = "unasked"
    /\ dPc = "idle"
    /\ dIdx = 0
    /\ failed = 0
    /\ deletedOut = <<>>
    /\ errorsOut = <<>>
    /\ cmdLog = <<>>
    /\ thrown = "none"

\* Any set of local branches, each in one of the test suite's situations.
InitAnalyze ==
    /\ FFIdle
    /\ SweepIdle
    /\ \E S \in SUBSET Names :
          /\ listing = SeqOf(S)
          /\ repo \in [S \ {TRUNK} -> FixtureProfiles]
    /\ onProgress \in BOOLEAN
    /\ AnalyzeIdle

\* One branch beside main, with every combination of git answers.
InitClassify ==
    /\ FFIdle
    /\ SweepIdle
    /\ listing = SeqOf({AllNames[1], TRUNK})
    /\ repo \in [{AllNames[1]} -> RichProfiles]
    /\ onProgress = TRUE
    /\ AnalyzeIdle

\* Text that is no number.
NonNumeric == <<"f", "a", "t", "a", "l">>

\* `git rev-list --count A..B` once more, now also printing something that is no
\* count, with either exit status.
CountAnswers == CountOutputs \cup { Ok(NonNumeric), [success |-> FALSE, stdout |-> NonNumeric] }

\* One branch beside main, merged or not, tracked or not, with every such answer to
\* its two count queries.
InitCounts ==
    /\ FFIdle
    /\ SweepIdle
    /\ listing = SeqOf({AllNames[1], TRUNK})
    /\ \E a \in {Ok(<<>>), Failed}, c \in {Ok(<<"=">>), Ok(<<"<", ">">>)},
          m \in {Ok(<<"base">>), Failed},
          l \in {ls \in LsAnswers(FileNames[1]) : ls.branch.success /\ ls.main.success},
          r \in {Ok(<<"tip">>), Failed}, h \in CountAnswers, b \in CountAnswers :
          repo = [n \in {AllNames[1]} |-> Profile(a, c, m, OneFile(l), r, h, b)]
    /\ onProgress = TRUE
    /\ AnalyzeIdle

SpecCounts == InitCounts /\ [][NextAnalyze]_vars

\* Two of the test suite's branches (merged by merge commit, needing a rebase) and
\* two whose queries fail outright (exit status other than 0, nothing on stdout):
\* one with unrelated histories and failing counts, one whose every query fails.
LiveProfiles ==
    LET none == [diffTree |-> Failed, ls |-> <<>>]
        same == [branch |-> LsLine("sha1", FileNames[1]), main |-> LsLine("sha1", FileNames[1])]
        diff == [branch |-> LsLine("sha1", FileNames[1]), main |-> Ok(<<>>)]
    IN  { Profile(Ok(<<>>), Ok(<<>>), Ok(<<"base">>), OneFile(same), Failed, Failed, Ok(<<"1", "2">>)),
          Profile(Failed, Ok(<<"<", ">">>), Ok(<<"base">>), OneFile(diff), Ok(<<"tip">>), Ok(<<"0">>), Ok(<<"1", "2">>)),
          Profile(Failed, Ok(<<">">>), Failed, none, Ok(<<"tip">>), Failed, Failed),
          Profile(Failed, Failed, Failed, none, Failed, Failed, Failed) }

\* Any set of local branches, each in one of these situations.
InitAnalyzeLive ==
    /\ FFIdle
    /\ SweepIdle
    /\ \E S \in SUBSET Names :
          /\ listing = SeqOf(S)
          /\ repo \in [S \ {TRUNK} -> LiveProfiles]
    /\ onProgress \in BOOLEAN
    /\ AnalyzeIdle

\* Every issued git command eventually returns and the event loop then runs the
\* continuation awaiting it; a settled Promise.all resumes analyzeBranches.
SpecAnalyzeLive ==
    /\ InitAnalyzeLive
    /\ [][NextAnalyze]_vars
    /\ WF_vars(GetLocalBranchesDone)
    /\ \A i \in 1..MaxBranches :
          WF_vars(aPc = "awaiting" /\ i \in 1..Len(tasks) /\ TaskStep(i))
    /\ WF_vars(Return)

SpecAnalyze == InitAnalyze /\ [][NextAnalyze]_vars

SpecClassify == InitClassify /\ [][NextAnalyze]_vars

(***************************************************************************)
(* Text helpers for git's line-oriented output.                            *)
(***************************************************************************)
TAB == "\t"

Whitespace == {" ", TAB}

RECURSIVE TrimStart(_)
TrimStart(line) ==
    IF line # <<>> /\ line[1] \in Whitespace THEN TrimStart(Tail(line)) ELSE line

RECURSIVE TrimEnd(_)
TrimEnd(line) ==
    IF line # <<>> /\ line[Len(line)] \in Whitespace
    THEN TrimEnd(SubSeq(line, 1, Len(line) - 1))
    ELSE line

\* String.prototype.trim
Trim(line) == TrimEnd(TrimStart(line))

RECURSIVE SplitOn(_, _)
\* String.prototype.split(sep): the runs between separators, empty runs kept.
SplitOn(line, sep) ==
    IF \A k \in 1..Len(line) : line[k] # sep THEN <<line>>
    ELSE LET k == CHOOSE j \in 1..Len(line) :
                     line[j] = sep /\ \A h \in 1..(j - 1) : line[h] # sep
         IN  <<SubSeq(line, 1, k - 1)>> \o SplitOn(SubSeq(line, k + 1, Len(line)), sep)

\* `parts[n] ?? ''` for text (n counted from 1 here).
PartOr(parts, n) == IF n <= Len(parts) THEN parts[n] ELSE <<>>

\* line.startsWith(prefix), the prefix being one atom.
StartsWith(line, prefix) == line # <<>> /\ line[1] = prefix

\* str.includes(word)
Includes(text, word) == word \in Range(text)

(***************************************************************************)
(* The repository behind a fast-forward pass, and how git prints it.       *)
(***************************************************************************)
FFNames == {AllNames[i] : i \in 1..MaxFFBranches}

\* %(upstream:short) and %(upstream:track) of a branch.
TrackStates == {"none", "uptodate", "gone", "ahead", "behind", "diverged"}

UpstreamText(b, st) == IF st = "none" THEN <<>> ELSE <<"origin/", b>>

TrackText(st) ==
    CASE st = "gone"     -> <<"[", "gone", "]">>
      [] st = "ahead"    -> <<"[", "ahead", " ", "1", "]">>
      [] st = "behind"   -> <<"[", "behind", " ", "2", "]">>
      [] st = "diverged" -> <<"[", "ahead", " ", "1", ",", " ", "behind", " ", "2", "]">>
      [] OTHER           -> <<>>

\* The branch checked out in the worktree git runs in ("detached" when none).
HeadBranch(r) == r.wts[r.cwd]

\* One line of `git branch --list
\*   --format=%(refname:short)\t%(upstream:short)\t%(upstream:track)\t%(HEAD)`.
BranchLine(r, b) ==
    <<b, TAB>> \o UpstreamText(b, r.track[b]) \o <<TAB>> \o TrackText(r.track[b])
        \o <<TAB, IF HeadBranch(r) = b THEN "*" ELSE " ">>

BranchListing(r) ==
    LET names == SeqOf(DOMAIN r.track)
    IN  [k \in 1..Len(names) |-> BranchLine(r, names[k])]

WorktreePaths == <<"/repo", "/wt/1", "/wt/2", "/wt/3">>

\* One entry of `git worktree list --porcelain`.
WorktreeEntry(r, k) ==
    <<  <<"worktree ", WorktreePaths[k]>>, <<"HEAD ", "sha">>,
        IF r.wts[k] = "detached" THEN <<"detached">>
        ELSE <<"branch refs/heads/", r.wts[k]>> >>

\* The main working tree first, then the linked worktrees, whatever directory git
\* runs in.
WorktreePorcelain(r) == [k \in 1..Len(r.wts) |-> WorktreeEntry(r, k)]

\* The repositories: every branch in some tracking state, a main working tree and
\* up to MaxLinked linked worktrees, no branch checked out twice, git run in the
\* main working tree or in the last linked worktree.
FFRepos ==
    { r \in [ track : [FFNames -> TrackStates],
              wts   : UNION {[1..n -> FFNames \cup {"detached"}] : n \in 1..(MaxLinked + 1)},
              cwd   : 1..(MaxLinked + 1) ] :
        /\ r.cwd \in {1, Len(r.wts)}
        /\ \A j, k \in 1..Len(r.wts) :
              (j # k /\ r.wts[j] = r.wts[k]) => r.wts[j] = "detached" }

(***************************************************************************)
(* getWorktrees (branches.ts:320-347).                                     *)
(***************************************************************************)
\* The text after `prefix` on the last line of the entry that starts with it.
EntryField(entry, prefix) ==
    LET hits == SelectSeq(entry, LAMBDA l : StartsWith(l, prefix))
    IN  IF hits = <<>> THEN <<>> ELSE Tail(hits[Len(hits)])

\* getWorktrees without `if (path && branch)`: detached entries are kept.
MapEntriesKeepingDetached(entries) ==
    SelectSeq(entries, LAMBDA e : EntryField(e, "worktree ") # <<>>)

\* The entries that make it into the map.
MapEntries(entries) ==
    SelectSeq(entries, LAMBDA e :
        EntryField(e, "worktree ") # <<>> /\ EntryField(e, "branch refs/heads/") # <<>>)

\* The map of the given entries: branch -> { path, branch }, a later entry of the
\* same branch replacing an earlier one.
WorktreeMap(entries) ==
    LET kept == MapEntries(entries)
        keys == {EntryField(kept[k], "branch refs/heads/") : k \in 1..Len(kept)}
    IN  [ b \in keys |->
            LET last == CHOOSE k \in 1..Len(kept) :
                            /\ EntryField(kept[k], "branch refs/heads/") = b
                            /\ \A h \in (k + 1)..Len(kept) :
                                  EntryField(kept[h], "branch refs/heads/") # b
            IN  [path |-> EntryField(kept[last], "worktree "), branch |-> b] ]

\* getWorktrees that keeps the first entry.
GetWorktreesKeepingFirst(out) == WorktreeMap(out)

\* out: the blank-line separated entries of stdout.  The first is skipped.
GetWorktrees(out) == IF out = <<>> THEN <<>> ELSE WorktreeMap(Tail(out))

(***************************************************************************)
(* fastForwardBranches (branches.ts:376-430).                              *)
(***************************************************************************)
\* stdout.split('\n').map((l) => l.trim()).filter((l) => l.length > 0)
ListingLines(out) ==
    LET trimmed == [k \in 1..Len(out) |-> Trim(out[k])]
    IN  SelectSeq(trimmed, LAMBDA l : l # <<>>)

LineBranch(line)   == PartOr(SplitOn(line, TAB), 1)
LineUpstream(line) == PartOr(SplitOn(line, TAB), 2)
LineTrack(line)    == PartOr(SplitOn(line, TAB), 3)
LineHead(line)     == PartOr(SplitOn(line, TAB), 4)

\* The loop body without the linked-worktree test.
ShouldFetchIgnoringWorktrees(line, wtBranches) ==
    /\ LineHead(line) # <<"*">>
    /\ ~(LineUpstream(line) = <<>> \/ LineTrack(line) = <<"[", "gone", "]">>)
    /\ ~(~Includes(LineTrack(line), "behind") \/ Includes(LineTrack(line), "ahead"))

\* The loop body without the HEAD test.
ShouldFetchIgnoringHead(line, wtBranches) ==
    /\ LineBranch(line) \notin wtBranches
    /\ ~(LineUpstream(line) = <<>> \/ LineTrack(line) = <<"[", "gone", "]">>)
    /\ ~(~Includes(LineTrack(line), "behind") \/ Includes(LineTrack(line), "ahead"))

\* The loop body without the test for local-only commits.
ShouldFetchIgnoringAhead(line, wtBranches) ==
    /\ LineHead(line) # <<"*">>
    /\ LineBranch(line) \notin wtBranches
    /\ ~(LineUpstream(line) = <<>> \/ LineTrack(line) = <<"[", "gone", "]">>)
    /\ Includes(LineTrack(line), "behind")

\* The loop body up to the fetch: none of the four `continue`s is taken.
ShouldFetch(line, wtBranches) ==
    /\ LineHead(line) # <<"*">>
    /\ LineBranch(line) \notin wtBranches
    /\ ~(LineUpstream(line) = <<>> \/ LineTrack(line) = <<"[", "gone", "]">>)
    /\ ~(~Includes(LineTrack(line), "behind") \/ Includes(LineTrack(line), "ahead"))

\* upstream.replace(/^origin\//, '')
UpstreamBranch(upstream) ==
    IF StartsWith(upstream, "origin/") THEN Tail(upstream) ELSE upstream

RECURSIVE NextToFetch(_, _, _)
\* The loop from line k on, up to its next await: the index of the first line that
\* is fetched, 0 when the loop runs out.
NextToFetch(lines, wtBranches, k) ==
    IF k > Len(lines) THEN 0
    ELSE IF ShouldFetch(lines[k], wtBranches) THEN k
    ELSE NextToFetch(lines, wtBranches, k + 1)

\* A loop that gives up at the first failed fetch.
AfterFetchStoppingOnFailure(lines, wtBranches, k, success) ==
    IF success THEN NextToFetch(lines, wtBranches, k + 1) ELSE 0

\* After the fetch of line k was answered the loop goes on with line k + 1.
AfterFetch(lines, wtBranches, k, success) == NextToFetch(lines, wtBranches, k + 1)

\* A result that reports every attempt as an update.
FetchResultAlwaysUpdated(branch, res) == [branch |-> branch, updated |-> TRUE]

\* results.push(...): the error is the fetch's stdout.
FetchResult(branch, res) ==
    IF res.success THEN [branch |-> branch, updated |-> TRUE]
    ELSE [branch |-> branch, updated |-> FALSE, error |-> res.stdout]

\* The lines the loop iterates over.
FFLines == ListingLines(BranchListing(ffRepo))

\* The fetch of line k, as issued.
FetchOf(lines, k) ==
    [ src    |-> UpstreamBranch(LineUpstream(lines[k])),
      dst    |-> LineBranch(lines[k]),
      state  |-> "inflight",
      stdout |-> <<>>,
      stderr |-> <<>> ]

\* Suspend on the fetch of line k, or return when k = 0.
FFGoTo(k) ==
    IF k = 0
    THEN /\ ffPc' = "returned"
         /\ ffIdx' = 0
         /\ UNCHANGED fetches
    ELSE /\ ffPc' = "fetching"
         /\ ffIdx' = k
         /\ fetches' = Append(fetches, FetchOf(FFLines, k))

\* `const worktrees = await getWorktrees()` answered; the branch listing is issued.
FFWorktreesDone ==
    /\ ffPc = "start"
    /\ worktreeBranches' = DOMAIN GetWorktrees(WorktreePorcelain(ffRepo))
    /\ ffPc' = "listing"
    /\ UNCHANGED <<ffRepo, ffIdx, ffResults, fetches, analyzeVars, sweepVars>>

\* The branch listing answered; the loop runs up to its first fetch.
FFListingDone ==
    /\ ffPc = "listing"
    /\ FFGoTo(NextToFetch(FFLines, worktreeBranches, 1))
    /\ UNCHANGED <<ffRepo, worktreeBranches, ffResults, analyzeVars, sweepVars>>

\* What a git process wrote, with its exit status.
Output(success, stdout, stderr) == [success |-> success, stdout |-> stdout, stderr |-> stderr]

\* git() handing a failed command's stderr on in place of its stdout.
GitCapturingStderr(out) ==
    [success |-> out.success, stdout |-> Trim(IF out.success THEN out.stdout ELSE out.stderr)]

\* git() (branches.ts:296-307): the exit status and the trimmed stdout; stderr is
\* piped and never read.
Git(out) == [success |-> out.success, stdout |-> Trim(out.stdout)]

\* What `git fetch origin <upstream>:<dst>` may produce.  git fetch reports to
\* stderr, the ref summary as well as a refusal; stdout carries text only when
\* something around git (a wrapper, a hook) prints there.  It refuses a branch
\* that is checked out in some worktree, and may fail for any other (a
\* non-fast-forward, the network).
FetchOutputs(r, dst) ==
    LET fetched  == Output(TRUE, <<>>, <<"From", " ", "origin">>)
        rejected == Output(FALSE, <<>>, <<"!", " ", "[", "rejected", "]">>)
        noisy    == Output(FALSE, <<" ", "hint", " ">>, <<"fatal">>)
    IN  IF \E k \in 1..Len(r.wts) : <<r.wts[k]>> = dst
        THEN {rejected}
        ELSE {fetched, rejected, noisy}

\* What git() may answer to a fetch into dst.
FetchAnswers(r, dst) == {Git(out) : out \in FetchOutputs(r, dst)}

\* The fetch answered: its result is pushed and the loop runs up to its next fetch.
FFFetchDone ==
    /\ ffPc = "fetching"
    /\ \E out \in FetchOutputs(ffRepo, fetches[Len(fetches)].dst) :
          LET res  == Git(out)
              k    == AfterFetch(FFLines, worktreeBranches, ffIdx, res.success)
              done == [fetches EXCEPT
                          ![Len(fetches)].state = IF res.success THEN "ok" ELSE "failed",
                          ![Len(fetches)].stdout = out.stdout,
                          ![Len(fetches)].stderr = out.stderr]
          IN  /\ ffResults' = Append(ffResults, FetchResult(LineBranch(FFLines[ffIdx]), res))
              /\ IF k = 0
                 THEN /\ ffPc' = "returned"
                      /\ ffIdx' = 0
                      /\ fetches' = done
                 ELSE /\ ffPc' = "fetching"
                      /\ ffIdx' = k
                      /\ fetches' = Append(done, FetchOf(FFLines, k))
    /\ UNCHANGED <<ffRepo, worktreeBranches, analyzeVars, sweepVars>>

NextFF ==
    \/ FFWorktreesDone
    \/ FFListingDone
    \/ FFFetchDone

InitFF ==
    /\ NoRepo
    /\ AnalyzeIdle
    /\ SweepIdle
    /\ ffRepo \in FFRepos
    /\ ffPc = "start"
    /\ worktreeBranches = {}
    /\ ffIdx = 0
    /\ ffResults = <<>>
    /\ fetches = <<>>

SpecFF == InitFF /\ [][NextFF]_vars

(***************************************************************************)
(* Branch deletion (sweep.ts:137-184, 271-331).                            *)
(***************************************************************************)
\* The repositories a deletion step starts from: main and any other branches,
\* HEAD on one of them or detached, any of the others held by a linked worktree.
SweepRepos ==
    { r \in [ refs : {S \cup {TRUNK} : S \in SUBSET Names},
              wts  : SUBSET Names,
              head : Names \cup {"detached"} ] :
        /\ r.head \in r.refs \cup {"detached"}
        /\ r.wts \subseteq r.refs \ {r.head} }

\* The sequences of distinct names: what a caller may pass, in any order.
RECURSIVE Orderings(_)
Orderings(S) ==
    IF S = {} THEN {<<>>}
    ELSE UNION {{<<x>> \o rest : rest \in Orderings(S \ {x})} : x \in S}

Selections(S) == UNION {Orderings(T) : T \in SUBSET S}

\* What getWorktrees returned before the analysis (sweep.ts:239).
WorktreesOf(r) == [b \in r.wts |-> [path |-> <<"/wt/", b>>, branch |-> b]]

\* `git worktree remove --force <path>` may fail (a locked worktree).
WorktreeRemoveAnswers == BOOLEAN

\* `git branch -D <b>`: git refuses a branch that does not exist or is checked out
\* somewhere; otherwise it may still fail (a ref lock).
BranchDeleteAnswers(r, b) ==
    IF b \notin r.refs \/ b = r.head \/ b \in r.wts THEN {FALSE} ELSE BOOLEAN

\* deleteBranch that never looks at the worktree.
FirstCommandIgnoringWorktree(hasWorktree) == "branch -D"

\* deleteBranch up to its first await: `if (worktree) await removeWorktree(...)`.
FirstCommand(hasWorktree) == IF hasWorktree THEN "worktree remove" ELSE "branch -D"

\* removeWorktree swallowing its failure.
AfterRemoveWorktreeIgnoringFailure(success) == "branch -D"

\* removeWorktree throws when the command failed; deleteBranch goes on otherwise.
AfterRemoveWorktree(success) == IF success THEN "branch -D" ELSE "throw"

\* A caller that lets a deletion error escape.
CatchesNever(m) == FALSE

\* Whether the loop around deleteBranch catches what it throws: sweepCommand's
\* does (sweep.ts:314-322), sweepBranchesNonInteractive's does not (180-183).
Catches(m) == m = "interactive"

\* The worktree passed to deleteBranch for the k-th selected branch.
HasWorktree(k) == mode = "interactive" /\ selected[k] \in DOMAIN worktrees

Command(cmd, arg, branch) == [cmd |-> cmd, arg |-> arg, branch |-> branch, state |-> "inflight"]

\* A command whose answer is not awaited: the next one is issued while it runs.
NotAwaited(log, ok) == log

Answered(log, ok) == [log EXCEPT ![Len(log)].state = IF ok THEN "ok" ELSE "failed"]

\* The loop from the k-th selected branch on, up to its next await: the first
\* command of deleteBranch is issued over the log `log`, or the loop has run out
\* and the command finishes.
DeleteFrom(k, log) ==
    IF k > Len(selected)
    THEN /\ dPc' = "finished"
         /\ dIdx' = 0
         /\ cmdLog' = log
    ELSE /\ dIdx' = k
         /\ IF FirstCommand(HasWorktree(k)) = "worktree remove"
            THEN /\ dPc' = "removingWorktree"
                 /\ cmdLog' = Append(log, Command("worktree remove",
                                                  worktrees[selected[k]].path, selected[k]))
            ELSE /\ dPc' = "deletingBranch"
                 /\ cmdLog' = Append(log, Command("branch -D", <<selected[k]>>, selected[k]))

\* deleteBranch threw for the branch at dIdx over the log `log`: the loop's catch
\* reports it and the loop goes on, or the error escapes the command.
DeleteThrew(kind, log) ==
    IF Catches(mode)
    THEN /\ errorsOut' = Append(errorsOut, [branch |-> selected[dIdx], error |-> kind])
         /\ failed' = failed + 1
         /\ DeleteFrom(dIdx + 1, log)
         /\ UNCHANGED thrown
    ELSE /\ thrown' = kind
         /\ dPc' = "thrown"
         /\ cmdLog' = log
         /\ UNCHANGED <<errorsOut, failed, dIdx>>

\* `git remote`: the remote names, one per line.
RemoteOutputs == {Ok(<<>>), Ok(<<"origin">>), Ok(<<"upstream">>), Ok(<<"origin", "upstream">>), Failed}

\* hasOriginRemote (branches.ts:435-441).
HasOriginRemote(out) == "origin" \in Range(SplitLines(out))

\* The first step after a successful isGitRepo: sweepBranchesNonInteractive enters
\* its loop, sweepCommand asks for the origin remote.
AfterIsGitRepo(m) == IF m = "interactive" THEN "hasOriginRemote" ELSE "delete"

\* A sweepCommand that goes on without an origin remote.
AfterHasOriginRemoteIgnoringAnswer(has) == "fetchOrigin"

\* `if (!(await hasOriginRemote())) throw new NoOriginRemoteError()` (sweep.ts:202-204).
AfterHasOriginRemote(has) == IF has THEN "fetchOrigin" ELSE "throw"

\* A fetchOrigin that swallows its failure.
AfterFetchOriginIgnoringFailure(success) == "fastForward"

\* fetchOrigin throws FetchFailedError when the fetch failed (sweep.ts:131-134).
AfterFetchOrigin(success) == IF success THEN "fastForward" ELSE "throw"

\* A check or command that names no branch.
Step(cmd) == Command(cmd, <<>>, "")

\* sweepBranchesNonInteractive / sweepCommand: isGitRepo answered.
IsGitRepoDone ==
    /\ dPc = "isGitRepo"
    /\ IF ~inRepo
       THEN /\ thrown' = "NotInGitRepoError"
            /\ dPc' = "thrown"
            /\ cmdLog' = Answered(cmdLog, FALSE)
            /\ UNCHANGED dIdx
       ELSE /\ IF AfterIsGitRepo(mode) = "delete"
               THEN DeleteFrom(1, Answered(cmdLog, TRUE))
               ELSE /\ dPc' = "hasOriginRemote"
                    /\ cmdLog' = Append(Answered(cmdLog, TRUE), Step("remote"))
                    /\ UNCHANGED dIdx
            /\ UNCHANGED thrown
    /\ UNCHANGED <<sRepo, mode, inRepo, worktrees, selected, confirmed, failed,
                   deletedOut, errorsOut, analyzeVars, ffVars>>

\* sweepCommand: hasOriginRemote answered.
HasOriginRemoteDone ==
    /\ dPc = "hasOriginRemote"
    /\ \E out \in RemoteOutputs :
          LET has == HasOriginRemote(out.stdout)
          IN  IF AfterHasOriginRemote(has) = "fetchOrigin"
              THEN /\ dPc' = "fetchOrigin"
                   /\ cmdLog' = Append(Answered(cmdLog, has), Step("fetch --prune"))
                   /\ UNCHANGED thrown
              ELSE /\ thrown' = "NoOriginRemoteError"
                   /\ dPc' = "thrown"
                   /\ cmdLog' = Answered(cmdLog, has)
    /\ UNCHANGED <<sRepo, mode, inRepo, worktrees, selected, confirmed, dIdx, failed,
                   deletedOut, errorsOut, analyzeVars, ffVars>>

\* sweepCommand: `git fetch origin --prune` answered.
FetchOriginDone ==
    /\ dPc = "fetchOrigin"
    /\ \E ok \in BOOLEAN :
          IF AfterFetchOrigin(ok) = "fastForward"
          THEN /\ dPc' = "fastForward"
               /\ cmdLog' = Append(Answered(cmdLog, ok), Step("fastForwardBranches"))
               /\ UNCHANGED thrown
          ELSE /\ thrown' = "FetchFailedError"
               /\ dPc' = "thrown"
               /\ cmdLog' = Answered(cmdLog, ok)
    /\ UNCHANGED <<sRepo, mode, inRepo, worktrees, selected, confirmed, dIdx, failed,
                   deletedOut, errorsOut, analyzeVars, ffVars>>

\* sweepCommand: fastForwardBranches returned; its results are only printed.
FastForwardDone ==
    /\ dPc = "fastForward"
    /\ dPc' = "getLocalBranches"
    /\ cmdLog' = Append(Answered(cmdLog, TRUE), Step("branch --list"))
    /\ UNCHANGED <<sRepo, mode, inRepo, worktrees, selected, confirmed, dIdx, failed,
                   deletedOut, errorsOut, thrown, analyzeVars, ffVars>>

\* sweepCommand: getLocalBranches answered; nothing to sweep without branches.
LocalBranchesDone ==
    /\ dPc = "getLocalBranches"
    /\ IF sRepo.refs \ {TRUNK} = {}
       THEN /\ dPc' = "finished"
            /\ cmdLog' = Answered(cmdLog, TRUE)
       ELSE /\ dPc' = "getWorktrees"
            /\ cmdLog' = Append(Answered(cmdLog, TRUE), Step("worktree list"))
    /\ UNCHANGED <<sRepo, mode, inRepo, worktrees, selected, confirmed, dIdx, failed,
                   deletedOut, errorsOut, thrown, analyzeVars, ffVars>>

\* sweepCommand: getWorktrees answered (sweep.ts:239), analyzeBranches starts.
WorktreesDone ==
    /\ dPc = "getWorktrees"
    /\ worktrees' = WorktreesOf(sRepo)
    /\ dPc' = "analyze"
    /\ cmdLog' = Append(Answered(cmdLog, TRUE), Step("analyzeBranches"))
    /\ UNCHANGED <<sRepo, mode, inRepo, selected, confirmed, dIdx, failed,
                   deletedOut, errorsOut, thrown, analyzeVars, ffVars>>

\* sweepCommand: analyzeBranches returned, the Checkbox prompt is shown.
AnalyzeDone ==
    /\ dPc = "analyze"
    /\ dPc' = "select"
    /\ cmdLog' = Answered(cmdLog, TRUE)
    /\ UNCHANGED <<sRepo, mode, inRepo, worktrees, selected, confirmed, dIdx, failed,
                   deletedOut, errorsOut, thrown, analyzeVars, ffVars>>

\* runCommand: an error that escaped sweepCommand is printed once and the process
\* exits with status 1.
RunCommandCatch ==
    /\ mode = "interactive"
    /\ dPc = "thrown"
    /\ dPc' = "exited"
    /\ errorsOut' = Append(errorsOut, [branch |-> "", error |-> thrown])
    /\ UNCHANGED <<sRepo, mode, inRepo, worktrees, selected, confirmed, dIdx, failed,
                   deletedOut, cmdLog, thrown, analyzeVars, ffVars>>

\* sweepCommand: the Checkbox prompt answered with any of the analysed branches.
SelectDone ==
    /\ dPc = "select"
    /\ \E S \in SUBSET (sRepo.refs \ {TRUNK}) :
          /\ selected' = SeqOf(S)
          /\ dPc' = IF S = {} THEN "finished" ELSE "confirm"
    /\ UNCHANGED <<sRepo, mode, inRepo, worktrees, confirmed, dIdx, failed, deletedOut,
                   errorsOut, cmdLog, thrown, analyzeVars, ffVars>>

\* A sweepCommand that deletes whatever the Confirm prompt answers.
AfterConfirmIgnoringAnswer(yes) == "delete"

\* `if (!confirmed) { ...; return; }` (sweep.ts:305-308).
AfterConfirm(yes) == IF yes THEN "delete" ELSE "return"

\* sweepCommand: the Confirm prompt answered.
ConfirmDone ==
    /\ dPc = "confirm"
    /\ \E yes \in BOOLEAN :
          /\ confirmed' = IF yes THEN "yes" ELSE "no"
          /\ IF AfterConfirm(yes) = "delete" THEN DeleteFrom(1, cmdLog)
             ELSE /\ dPc' = "finished"
                  /\ UNCHANGED <<dIdx, cmdLog>>
    /\ UNCHANGED <<sRepo, mode, inRepo, worktrees, selected, failed, deletedOut,
                   errorsOut, thrown, analyzeVars, ffVars>>

\* `git worktree remove --force` answered.
RemoveWorktreeDone ==
    /\ dPc = "removingWorktree"
    /\ \E ok \in WorktreeRemoveAnswers :
          /\ sRepo' = IF ok THEN [sRepo EXCEPT !.wts = @ \ {selected[dIdx]}] ELSE sRepo
          /\ IF AfterRemoveWorktree(ok) = "branch -D"
             THEN /\ dPc' = "deletingBranch"
                  /\ cmdLog' = Append(Answered(cmdLog, ok),
                                      Command("branch -D", <<selected[dIdx]>>, selected[dIdx]))
                  /\ UNCHANGED <<dIdx, failed, errorsOut, thrown>>
             ELSE DeleteThrew("Error: Failed to remove worktree", Answered(cmdLog, ok))
    /\ UNCHANGED <<mode, inRepo, worktrees, selected, confirmed, deletedOut,
                   analyzeVars, ffVars>>

\* `git branch -D` answered.
BranchDeleteDone ==
    /\ dPc = "deletingBranch"
    /\ \E ok \in BranchDeleteAnswers(sRepo, selected[dIdx]) :
          /\ sRepo' = IF ok THEN [sRepo EXCEPT !.refs = @ \ {selected[dIdx]}] ELSE sRepo
          /\ IF ok
             THEN /\ deletedOut' = Append(deletedOut, selected[dIdx])
                  /\ DeleteFrom(dIdx + 1, Answered(cmdLog, ok))
                  /\ UNCHANGED <<failed, errorsOut, thrown>>
             ELSE /\ DeleteThrew("DeleteBranchError", Answered(cmdLog, ok))
                  /\ UNCHANGED deletedOut
    /\ UNCHANGED <<mode, inRepo, worktrees, selected, confirmed, analyzeVars, ffVars>>

NextSweep ==
    \/ IsGitRepoDone
    \/ HasOriginRemoteDone
    \/ FetchOriginDone
    \/ FastForwardDone
    \/ LocalBranchesDone
    \/ WorktreesDone
    \/ AnalyzeDone
    \/ SelectDone
    \/ ConfirmDone
    \/ RemoveWorktreeDone
    \/ BranchDeleteDone
    \/ RunCommandCatch

InitSweep ==
    /\ NoRepo
    /\ AnalyzeIdle
    /\ FFIdle
    /\ sRepo \in SweepRepos
    /\ mode \in {"interactive", "nonInteractive"}
    /\ inRepo \in BOOLEAN
    /\ worktrees = <<>>
    /\ selected \in IF mode = "interactive" THEN {<<>>} ELSE Selections(Names \ {TRUNK})
    /\ dPc = "isGitRepo"
    /\ confirmed = "unasked"
    /\ dIdx = 0
    /\ failed = 0
    /\ deletedOut = <<>>
    /\ errorsOut = <<>>
    /\ cmdLog = <<Step("isGitRepo")>>
    /\ thrown = "none"

SpecSweep == InitSweep /\ [][NextSweep]_vars

(***************************************************************************)
(* The mutating operations: a fastForwardBranches call or a sweep.         *)
(***************************************************************************)
InitMutations == InitFF \/ InitSweep

NextMutations == NextFF \/ NextSweep

SpecMutations == InitMutations /\ [][NextMutations]_vars

(***************************************************************************)
(* Properties of classification (SpecClassify, SpecAnalyze).               *)
(***************************************************************************)
Statuses == {"merged", "unpushed", "needs-rebase", "active"}

\* The tasks whose classifyBranch call has returned.
ClassifiedTasks == {i \in 1..Len(tasks) : tasks[i].pc \in {"classified", "done"}}

\* What git answers about the branch of task i.
Answers(i) == repo[branches[i]]

\* C1: every classified branch has one of the four statuses, and it is 'merged'
\* whenever one of the three merge strategies holds of git's answers, whatever
\* the answers about origin/<branch> are.
C1_MergedHasPriority ==
    \A i \in ClassifiedTasks :
        /\ tasks[i].status \in Statuses
        /\ (\/ IsMergedByAncestry(Answers(i).ancestry)
            \/ IsMergedByCherryMark(Answers(i).cherry)
            \/ IsMergedByContent(Answers(i)))
              => tasks[i].status = "merged"

\* C1 witness: a branch merged by content alone that has no origin/<branch>.
C1_Witness ==
    \E i \in ClassifiedTasks :
        /\ tasks[i].status = "merged"
        /\ tasks[i].byAncestry = "false"
        /\ tasks[i].byCherry = "false"
        /\ IsMergedByContent(Answers(i))
        /\ ~Answers(i).revParse.success

\* C2: analyzeBranches returns one element per enumerated branch, the i-th named
\* after the i-th enumerated branch, whatever order the tasks completed in.
C2_ResultsInEnumerationOrder ==
    aPc = "returned" =>
        /\ Len(results) = Len(branches)
        /\ \A i \in 1..Len(branches) : results[i].name = branches[i]

\* C2 witness: a pass has returned in which the last enumerated branch completed
\* first.
C2_Witness ==
    /\ aPc = "returned"
    /\ Len(results) >= 2
    /\ progress # <<>>
    /\ progress[1].branch = branches[Len(branches)]

\* C3: with a callback, the k-th progress event carries current = k and
\* total = N, no branch is reported twice, and once the pass has returned there
\* are exactly N events, one per enumerated branch.
C3_ProgressCounts ==
    onProgress =>
        /\ \A k \in 1..Len(progress) :
              /\ progress[k].current = k
              /\ progress[k].total = Len(branches)
              /\ progress[k].branch \in Range(branches)
        /\ \A k, m \in 1..Len(progress) :
              progress[k].branch = progress[m].branch => k = m
        /\ Len(progress) <= Len(branches)
        /\ total = Len(branches)
        /\ aPc = "returned" => Len(progress) = Len(branches)

\* C3 witness: a pass with a callback has returned after the first enumerated
\* branch completed last.
C3_Witness ==
    /\ aPc = "returned"
    /\ onProgress
    /\ Len(progress) >= 2
    /\ progress[Len(progress)].branch = branches[1]
    /\ progress[Len(progress)].current = Len(branches)

\* Whether a git command of isMergedByContent that task i has had answered failed.
ContentCommandFailed(i) ==
    LET t == tasks[i]
        p == Answers(i)
    IN  \/ ~p.mergeBase.success
        \/ p.mergeBase.success /\ ~p.content.diffTree.success
        \/ \E k \in 1..t.fidx :
              \/ ~p.content.ls[k].branch.success
              \/ ~p.content.ls[k].main.success

\* C4: a strategy one of whose git commands exited unsuccessfully returns false.
C4_StrategiesFailClosed ==
    \A i \in 1..Len(tasks) :
        /\ (tasks[i].byAncestry # "pending" /\ ~Answers(i).ancestry.success)
              => tasks[i].byAncestry = "false"
        /\ (tasks[i].byCherry # "pending" /\ ~Answers(i).cherry.success)
              => tasks[i].byCherry = "false"
        /\ (tasks[i].byContent # "pending" /\ ContentCommandFailed(i))
              => tasks[i].byContent = "false"

\* None of the three merge strategies holds of what git answers about task i.
NotMerged(i) ==
    /\ ~IsMergedByAncestry(Answers(i).ancestry)
    /\ ~IsMergedByCherryMark(Answers(i).cherry)
    /\ ~IsMergedByContent(Answers(i))

\* origin/<branch> exists: `git rev-parse --verify origin/<branch>` succeeds.
HasRemoteRef(i) == Answers(i).revParse.success

\* `git rev-list --count` printed a count other than zero.
Counted(res) == res.success /\ res.stdout # <<"0">>

\* `git rev-list --count` printed zero.
CountedZero(res) == res = Ok(<<"0">>)

\* C13: a classified branch that no strategy finds merged and that has no
\* origin/<branch>, or has commits origin/<branch> lacks, is 'unpushed', whatever
\* main has that the branch lacks.
C13_UnpushedWhenAheadOrUntracked ==
    \A i \in ClassifiedTasks :
        (NotMerged(i) /\ (~HasRemoteRef(i) \/ Counted(Answers(i).ahead)))
            => tasks[i].status = "unpushed"

\* C13 witness: an unpushed branch whose origin/<branch> exists, with commits ahead
\* of it, while main has commits the branch lacks.
C13_Witness ==
    \E i \in ClassifiedTasks :
        /\ tasks[i].status = "unpushed"
        /\ NotMerged(i)
        /\ HasRemoteRef(i)
        /\ Counted(Answers(i).ahead)
        /\ Counted(Answers(i).behind)

\* C14: a classified branch that no strategy finds merged, whose origin/<branch>
\* exists with nothing ahead of it, and behind which main has moved on, is
\* 'needs-rebase'.
C14_NeedsRebaseWhenTrunkAhead ==
    \A i \in ClassifiedTasks :
        (/\ NotMerged(i)
         /\ HasRemoteRef(i)
         /\ CountedZero(Answers(i).ahead)
         /\ Counted(Answers(i).behind))
            => tasks[i].status = "needs-rebase"

\* C14 witness: such a branch, classified 'needs-rebase' after all five queries
\* before the last were answered.
C14_Witness ==
    \E i \in ClassifiedTasks :
        /\ tasks[i].status = "needs-rebase"
        /\ tasks[i].byContent = "false"
        /\ HasRemoteRef(i)
        /\ CountedZero(Answers(i).ahead)
        /\ Counted(Answers(i).behind)

\* C15: a classified branch that no strategy finds merged, whose origin/<branch>
\* exists with nothing ahead of it, and which lacks nothing main has, is 'active'.
C15_ActiveWhenInSync ==
    \A i \in ClassifiedTasks :
        (/\ NotMerged(i)
         /\ HasRemoteRef(i)
         /\ CountedZero(Answers(i).ahead)
         /\ CountedZero(Answers(i).behind))
            => tasks[i].status = "active"

\* C15 witness: such a branch, classified 'active'.
C15_Witness ==
    \E i \in ClassifiedTasks :
        /\ tasks[i].status = "active"
        /\ tasks[i].byContent = "false"
        /\ HasRemoteRef(i)
        /\ CountedZero(Answers(i).ahead)
        /\ CountedZero(Answers(i).behind)

\* Every content query that task i has had answered succeeded, the merge-base
\* lookup apart.
ContentQueriesSucceeded(i) ==
    LET p == Answers(i)
    IN  p.mergeBase.success =>
            /\ p.content.diffTree.success
            /\ \A k \in 1..Len(p.content.ls) :
                  p.content.ls[k].branch.success /\ p.content.ls[k].main.success

\* The blob of a file at a tip, from `git ls-tree <tip> -- <file>`; "absent" when the
\* tree has no such file.
TipBlob(res) == IF res.stdout = <<>> THEN "absent" ELSE res.stdout[3]

\* Every touched file that still exists at the branch tip has the same blob at
\* main's tip.
TouchedFilesSame(p) ==
    \A k \in 1..Len(p.content.ls) :
        TipBlob(p.content.ls[k].branch) # "absent"
            => TipBlob(p.content.ls[k].main) = TipBlob(p.content.ls[k].branch)

\* C16: isMergedByContent reports merged if and only if the merge base is found and
\* every touched file still present at the branch tip has the same blob at main's
\* tip.
C16_ContentMergedIffBlobsMatch ==
    \A i \in 1..Len(tasks) :
        (tasks[i].byContent # "pending" /\ ContentQueriesSucceeded(i)) =>
            (tasks[i].byContent = "true"
                <=> (Answers(i).mergeBase.success /\ TouchedFilesSame(Answers(i))))

\* The same equivalence for branches that touched at least one file.  This one
\* holds.
ContentMergedIffTouchedBlobsMatch ==
    \A i \in 1..Len(tasks) :
        (tasks[i].byContent # "pending" /\ ContentQueriesSucceeded(i)) =>
            (tasks[i].byContent = "true"
                <=> /\ Answers(i).mergeBase.success
                    /\ Answers(i).content.ls # <<>>
                    /\ TouchedFilesSame(Answers(i)))

\* A squash-merged branch: not an ancestor of main, with a commit unique to the
\* branch side, and the same blobs in main; it is classified 'merged'.
SquashMergedIsMerged ==
    \A i \in ClassifiedTasks :
        (/\ tasks[i].byAncestry = "false"
         /\ tasks[i].byCherry = "false"
         /\ ContentQueriesSucceeded(i)
         /\ Answers(i).mergeBase.success
         /\ Answers(i).content.ls # <<>>
         /\ TouchedFilesSame(Answers(i)))
            => tasks[i].status = "merged"

\* C17: when the cherry-mark log was printed, isMergedByCherryMark reports merged
\* exactly when it holds no commit marked unique to the branch side, also when the
\* branch side contributes no commit at all; the branch is then 'merged'.
C17_CherryMergedIffNoUniqueCommit ==
    \A i \in 1..Len(tasks) :
        (tasks[i].byCherry # "pending" /\ Answers(i).cherry.success) =>
            /\ tasks[i].byCherry = "true" <=> ">" \notin Range(Answers(i).cherry.stdout)
            /\ tasks[i].byCherry = "true" => tasks[i].status = "merged"

\* C17 witness: a rebased branch: not an ancestor of main, every branch-side commit
\* marked equivalent, classified 'merged' by the second strategy.
C17_Witness ==
    \E i \in ClassifiedTasks :
        /\ tasks[i].byAncestry = "false"
        /\ Answers(i).cherry = Ok(<<"<", "=">>)
        /\ tasks[i].byCherry = "true"
        /\ tasks[i].status = "merged"

\* C18: a branch whose tip is an ancestor of main is 'merged' by the ancestry query
\* alone: it is the only command issued for that branch.
C18_AncestryAlone ==
    \A i \in 1..Len(tasks) :
        (tasks[i].pc # "ancestry" /\ Answers(i).ancestry.success) =>
            /\ tasks[i].status = "merged"
            /\ tasks[i].cmds = <<"merge-base --is-ancestor">>
            /\ tasks[i].byAncestry = "true"
            /\ tasks[i].byCherry = "pending"
            /\ tasks[i].byContent = "pending"

\* C18 witness: an ancestor branch classified 'merged' for which the other queries
\* would have answered "not merged" and "unpushed".
C18_Witness ==
    \E i \in ClassifiedTasks :
        /\ Answers(i).ancestry.success
        /\ tasks[i].status = "merged"
        /\ ">" \in Range(Answers(i).cherry.stdout)
        /\ ~Answers(i).revParse.success

(***************************************************************************)
(* Properties of fast-forwarding (SpecFF).                                 *)
(***************************************************************************)
\* The branch named b was fetched into, or is reported in the results.
Touched(b) ==
    \/ \E k \in 1..Len(ffResults) : ffResults[k].branch = <<b>>
    \/ \E k \in 1..Len(fetches) : fetches[k].dst = <<b>>

\* The branches held by linked worktrees: every worktree but the main working tree.
LinkedBranches(r) == {r.wts[k] : k \in 2..Len(r.wts)} \ {"detached"}

\* C5 as stated: main is never fetched into and never reported.
C5_TrunkNeverFastForwarded == ~Touched(TRUNK)

\* C5 amended: main is neither fetched into nor reported whenever it is checked
\* out, as HEAD of the working directory or in a linked worktree.
C5_TrunkSkippedWhenCheckedOut ==
    (HeadBranch(ffRepo) = TRUNK \/ TRUNK \in LinkedBranches(ffRepo)) => ~Touched(TRUNK)

\* C5 witness: main is HEAD and strictly behind origin/main, and the pass has
\* returned after fast-forwarding another branch.
C5_Witness ==
    /\ ffPc = "returned"
    /\ HeadBranch(ffRepo) = TRUNK
    /\ ffRepo.track[TRUNK] = "behind"
    /\ ffResults # <<>>

\* C6: a branch marked HEAD in the listing, or a key of the getWorktrees map, is
\* neither fetched into nor reported, whatever its tracking status.
C6_CheckedOutNeverFastForwarded ==
    LET keys == DOMAIN GetWorktrees(WorktreePorcelain(ffRepo))
    IN  \A b \in FFNames :
            (HeadBranch(ffRepo) = b \/ <<b>> \in keys) => ~Touched(b)

\* C6 witness: the pass has returned having fetched something, while a branch
\* held by a linked worktree other than the working directory was strictly behind.
C6_Witness ==
    /\ ffPc = "returned"
    /\ fetches # <<>>
    /\ \E b \in LinkedBranches(ffRepo) :
          /\ b # HeadBranch(ffRepo)
          /\ ffRepo.track[b] = "behind"

\* The eligibility rules of C7, on the repository itself.
Eligible(b) ==
    /\ HeadBranch(ffRepo) # b
    /\ b \notin LinkedBranches(ffRepo)
    /\ ffRepo.track[b] \notin {"none", "gone"}
    /\ ffRepo.track[b] \in {"behind", "diverged"}
    /\ ffRepo.track[b] \notin {"ahead", "diverged"}

\* The eligibility rules as C7 words them: checked out means HEAD of the primary
\* worktree or of a linked one, wherever the command runs.
EligibleAsClaimed(b) ==
    /\ b # ffRepo.wts[1]
    /\ b \notin LinkedBranches(ffRepo)
    /\ ffRepo.track[b] \notin {"none", "gone"}
    /\ ffRepo.track[b] \in {"behind", "diverged"}
    /\ ffRepo.track[b] \notin {"ahead", "diverged"}

\* C7: once the pass has returned, a listed branch has been fetched into, and has
\* exactly one result, if and only if it is not HEAD of the primary worktree, not
\* checked out in a linked worktree, has a live upstream and is behind and not
\* ahead; any other branch has neither a fetch nor a result.
C7_FetchedIffEligible ==
    ffPc = "returned" =>
        \A b \in FFNames :
            /\ EligibleAsClaimed(b) <=>
                  /\ Cardinality({k \in 1..Len(ffResults) : ffResults[k].branch = <<b>>}) = 1
                  /\ Cardinality({k \in 1..Len(fetches) : fetches[k].dst = <<b>>}) = 1
            /\ ~EligibleAsClaimed(b) => ~Touched(b)

\* The same rule with "checked out" read off what the code reads: the listing's
\* HEAD mark and the keys of getWorktrees.  This one holds.
FetchedIffEligibleByListing ==
    ffPc = "returned" =>
        \A b \in FFNames :
            /\ Eligible(b) <=>
                  /\ Cardinality({k \in 1..Len(ffResults) : ffResults[k].branch = <<b>>}) = 1
                  /\ Cardinality({k \in 1..Len(fetches) : fetches[k].dst = <<b>>}) = 1
            /\ ~Eligible(b) => ~Touched(b)

\* C8: every answered fetch has its result, in order: updated = true and no error
\* field when it succeeded, updated = false and an error when it failed; and a
\* pass that returned has fetched into every eligible branch, failures or not.
C8_FailuresAreResults ==
    /\ ffPc \in {"idle", "start", "listing", "fetching", "returned"}
    /\ Len(ffResults) = Cardinality({k \in 1..Len(fetches) : fetches[k].state # "inflight"})
    /\ \A k \in 1..Len(ffResults) :
          /\ ffResults[k].branch = fetches[k].dst
          /\ fetches[k].state = "ok" =>
                /\ ffResults[k].updated
                /\ DOMAIN ffResults[k] = {"branch", "updated"}
          /\ fetches[k].state = "failed" =>
                /\ ~ffResults[k].updated
                /\ "error" \in DOMAIN ffResults[k]
    /\ ffPc = "returned" =>
          \A b \in FFNames : Eligible(b) => \E k \in 1..Len(fetches) : fetches[k].dst = <<b>>

\* C8 witness: a pass has returned whose first fetch failed and whose second
\* succeeded.
C8_Witness ==
    /\ ffPc = "returned"
    /\ Len(fetches) >= 2
    /\ fetches[1].state = "failed"
    /\ fetches[2].state = "ok"
    /\ ffResults[2].updated

\* getWorktrees has returned to fastForwardBranches.
WorktreesRead == ffPc \in {"listing", "fetching", "returned"}

\* The keys of the returned map, as branch names.
WorktreeKeys == {b \in FFNames : <<b>> \in worktreeBranches}

\* The map's keys are branch names, each key maps to the path and branch of the
\* porcelain entry that has it checked out, and no entry without a branch has a key.
MapWellFormed ==
    LET m == GetWorktrees(WorktreePorcelain(ffRepo))
    IN  /\ worktreeBranches = DOMAIN m
        /\ \A key \in DOMAIN m :
              \E k \in 1..Len(ffRepo.wts) :
                  /\ key = <<ffRepo.wts[k]>>
                  /\ ffRepo.wts[k] # "detached"
                  /\ m[key] = [path |-> <<WorktreePaths[k]>>, branch |-> key]

\* The branches checked out in a worktree other than the one the command runs in.
OutsideWorkingDirectory(r) ==
    {r.wts[k] : k \in (1..Len(r.wts)) \ {r.cwd}} \ {"detached"}

\* C19 as stated: the keys are the branches of every worktree but the one of the
\* running working directory.
C19_KeysExcludeWorkingDirectory ==
    WorktreesRead =>
        /\ MapWellFormed
        /\ WorktreeKeys = OutsideWorkingDirectory(ffRepo)

\* C19 amended: the keys are the branches of every worktree but the repository's
\* main working tree, the first git lists, whatever directory the command runs in;
\* detached worktrees have no key; each key maps to its entry's path and branch.
C19_KeysAreLinkedBranches ==
    WorktreesRead =>
        /\ MapWellFormed
        /\ WorktreeKeys = LinkedBranches(ffRepo)

\* C19 witness: the command runs inside a linked worktree; that worktree's branch
\* is the only key, the main working tree's branch is not one.
C19_Witness ==
    /\ WorktreesRead
    /\ ffRepo.cwd = 2
    /\ ffRepo.wts[1] \in FFNames
    /\ WorktreeKeys = {ffRepo.wts[2]}

\* C20 as stated: main is never a key.
C20_TrunkNeverAKey == WorktreesRead => TRUNK \notin WorktreeKeys

\* C20 amended: main is a key exactly when a linked worktree has it checked out;
\* checked out in the main working tree it is never one.
C20_TrunkKeyOnlyWhenLinked ==
    WorktreesRead =>
        /\ TRUNK \in WorktreeKeys <=> (\E k \in 2..Len(ffRepo.wts) : ffRepo.wts[k] = TRUNK)
        /\ ffRepo.wts[1] = TRUNK => TRUNK \notin WorktreeKeys

\* C20 witness: main in the main working tree and a branch in a linked worktree:
\* the map has the branch and not main.
C20_Witness ==
    /\ WorktreesRead
    /\ ffRepo.wts[1] = TRUNK
    /\ WorktreeKeys # {}
    /\ TRUNK \notin WorktreeKeys

(***************************************************************************)
(* Properties of branch deletion (SpecSweep).                              *)
(***************************************************************************)
\* The deletion loop was entered: the user confirmed, or the non-interactive
\* sweep found itself in a repository.
LoopEntered ==
    \/ mode = "interactive" /\ confirmed = "yes"
    \/ mode = "nonInteractive" /\ inRepo

\* A command was issued for the k-th selected branch.
Attempted(k) == \E j \in 1..Len(cmdLog) : cmdLog[j].branch = selected[k]

\* C9: when the command has ended, by returning or by an escaped error, every
\* selected branch has had its deletion attempted, in either kind of sweep.
C9_FailureNeverStopsTheBatch ==
    (dPc \in {"finished", "thrown"} /\ LoopEntered) =>
        \A k \in 1..Len(selected) : Attempted(k)

\* C10: for a branch passed to deleteBranch with its worktree, `git branch -D` is
\* issued only right after that worktree's removal has succeeded; a failed removal
\* is followed by no `git branch -D` for the branch, leaves its ref in place and is
\* reported as that branch's error.
C10_WorktreeRemovedBeforeRef ==
    \A k \in 1..Len(cmdLog) :
        /\ (cmdLog[k].cmd = "branch -D" /\ mode = "interactive"
                /\ cmdLog[k].branch \in DOMAIN worktrees)
              => /\ k > 1
                 /\ cmdLog[k - 1].cmd = "worktree remove"
                 /\ cmdLog[k - 1].arg = worktrees[cmdLog[k].branch].path
                 /\ cmdLog[k - 1].state = "ok"
        /\ (cmdLog[k].cmd = "worktree remove" /\ cmdLog[k].state = "failed")
              => /\ \A j \in 1..Len(cmdLog) :
                       ~(cmdLog[j].cmd = "branch -D" /\ cmdLog[j].branch = cmdLog[k].branch)
                 /\ cmdLog[k].branch \in sRepo.refs
                 /\ cmdLog[k].branch \in sRepo.wts
                 /\ \E e \in 1..Len(errorsOut) :
                       /\ errorsOut[e].branch = cmdLog[k].branch
                       /\ errorsOut[e].error = "Error: Failed to remove worktree"

\* C10 witness: the sweep has finished; one branch's worktree removal failed, and
\* another branch was deleted after its worktree was removed.
C10_Witness ==
    /\ dPc = "finished"
    /\ \E k \in 1..Len(cmdLog) : cmdLog[k].cmd = "worktree remove" /\ cmdLog[k].state = "failed"
    /\ \E k \in 2..Len(cmdLog) :
          /\ cmdLog[k].cmd = "branch -D"
          /\ cmdLog[k].state = "ok"
          /\ cmdLog[k - 1].cmd = "worktree remove"
          /\ cmdLog[k - 1].state = "ok"

\* The commands that delete something.
Destructive == {"worktree remove", "branch -D"}

\* The branches the user selected.
Selected == {selected[k] : k \in 1..Len(selected)}

\* C11: in sweepCommand a worktree removal or a branch deletion is issued only
\* after a non-empty selection and an affirmative confirmation, and only for a
\* selected branch; only selected branches are reported deleted; and a step that
\* changes the repository removes nothing but selected branches and their
\* worktrees, after that selection and confirmation.
C11_DeletesOnlyConfirmedSelection ==
    [][ mode = "interactive" =>
          /\ \A k \in 1..Len(cmdLog') :
                cmdLog'[k].cmd \in Destructive =>
                    /\ selected # <<>>
                    /\ confirmed' = "yes"
                    /\ cmdLog'[k].branch \in Selected
          /\ \A k \in 1..Len(deletedOut') : deletedOut'[k] \in Selected
          /\ sRepo' # sRepo =>
                /\ selected # <<>>
                /\ confirmed = "yes"
                /\ (sRepo.refs \ sRepo'.refs) \subseteq Selected
                /\ (sRepo.wts \ sRepo'.wts) \subseteq Selected
                /\ sRepo'.refs \subseteq sRepo.refs
                /\ sRepo'.wts \subseteq sRepo.wts ]_vars

\* C11 witness: an interactive sweep that deleted a selected branch and left an
\* unselected one in place, and nothing else.
C11_Witness ==
    /\ mode = "interactive"
    /\ dPc = "finished"
    /\ confirmed = "yes"
    /\ deletedOut # <<>>
    /\ \E b \in sRepo.refs \ {TRUNK} : b \notin Selected

\* The three checks sweepCommand starts with, and the error each one throws.
Preamble == <<"isGitRepo", "remote", "fetch --prune">>

PreambleError == <<"NotInGitRepoError", "NoOriginRemoteError", "FetchFailedError">>

\* Everything sweepCommand does about branches.
BranchWork ==
    {"fastForwardBranches", "branch --list", "worktree list", "analyzeBranches"}
        \cup Destructive

\* C12: sweepCommand runs the repository check, the origin check and the pruning
\* fetch first and in that order; fast-forwarding, classification and deletion are
\* issued only after all three succeeded; a failed check is the last thing the
\* command does, it throws that check's error, and runCommand reports it once.
C12_PreambleGuardsBranchWork ==
    mode = "interactive" =>
        /\ \A k \in 1..Len(cmdLog) :
              IF k <= Len(Preamble) THEN cmdLog[k].cmd = Preamble[k]
              ELSE cmdLog[k].cmd \in BranchWork
        /\ \A k \in 1..Len(cmdLog) :
              cmdLog[k].cmd \in BranchWork =>
                  \A j \in 1..Len(Preamble) : cmdLog[j].state = "ok"
        /\ \A k \in 1..Len(cmdLog) :
              (k <= Len(Preamble) /\ cmdLog[k].state = "failed") =>
                  /\ k = Len(cmdLog)
                  /\ dPc \in {"thrown", "exited"}
                  /\ thrown = PreambleError[k]
                  /\ errorsOut = IF dPc = "exited"
                                 THEN <<[branch |-> "", error |-> thrown]>> ELSE <<>>
                  /\ deletedOut = <<>>
        /\ thrown # "none" =>
              /\ cmdLog[Len(cmdLog)].state = "failed"
              /\ Len(cmdLog) <= Len(Preamble)

\* C12 witness: the repository and origin checks passed, the fetch failed, and the
\* command has exited on that error.
C12_Witness ==
    /\ mode = "interactive"
    /\ dPc = "exited"
    /\ thrown = "FetchFailedError"
    /\ Len(cmdLog) = Len(Preamble)
    /\ cmdLog[1].state = "ok"
    /\ cmdLog[2].state = "ok"

(***************************************************************************)
(* The trunk and the empty repository.                                     *)
(***************************************************************************)

\* C21: the name 'main' never appears in the result of getLocalBranches, as the
\* name of a BranchInfo that analyzeBranches holds or returns, or as the branch of
\* a progress event, whether or not git's listing holds it.
C21_TrunkNeverAnalyzed ==
    /\ \A i \in 1..Len(branches) : branches[i] # TRUNK
    /\ \A i \in 1..Len(values) : values[i] # Pending => values[i].name # TRUNK
    /\ \A i \in 1..Len(results) : results[i].name # TRUNK
    /\ \A k \in 1..Len(progress) : progress[k].branch # TRUNK

\* C21 witness: git listed main between two other branches, and the pass returned
\* a BranchInfo and a progress event for each of the others.
C21_Witness ==
    /\ aPc = "returned"
    /\ \E k \in 2..(Len(listing) - 1) : listing[k] = TRUNK
    /\ Len(results) = Len(listing) - 1
    /\ Len(progress) = Len(results)

\* The commands the classification tasks have issued so far.
QueriesIssued == UNION { Range(tasks[i].cmds) : i \in 1..Len(tasks) }

\* C23: in a repository whose only local branch is main, getLocalBranches returns
\* the empty sequence, and analyzeBranches returns the empty sequence without
\* starting a task, issuing a classification query or emitting a progress event.
C23_OnlyTrunkYieldsNothing ==
    listing = <<TRUNK>> =>
        /\ GetLocalBranches(listing) = <<>>
        /\ branches = <<>>
        /\ aPc \in {"start", "returned"}
        /\ results = <<>>
        /\ QueriesIssued = {}
        /\ progress = <<>>
        /\ current = 0

\* C23 witness: a pass over a repository holding only main, called with a
\* progress callback, has returned.
C23_Witness ==
    /\ listing = <<TRUNK>>
    /\ onProgress
    /\ aPc = "returned"
    /\ results = <<>>

(***************************************************************************)
(* Determinism of a pass.                                                  *)
(***************************************************************************)
\* C22: what analyzeBranches returns is a function of the repository alone: in
\* every interleaving of the tasks the returned sequence has the same names, in
\* the same order, with the same statuses, so two passes over an unchanged
\* repository return identical sequences.
C22_ResultsDependOnRepositoryOnly ==
    aPc = "returned" => results = AnalyzeBranches(listing, repo)

\* C22 witness: a pass over two branches of different status returned, its tasks
\* having completed in the reverse of enumeration order.
C22_Witness ==
    /\ aPc = "returned"
    /\ Len(results) = 2
    /\ results[1].status # results[2].status
    /\ Len(progress) = 2
    /\ progress[1].branch = branches[2]

(***************************************************************************)
(* The order of the checks inside classifyBranch.                          *)
(***************************************************************************)
\* The check a command belongs to: 1 ancestry, 2 equivalent-patch, 3 content
\* equivalence, 4 unpushed, 5 needs-rebase.
CheckOf(cmd) ==
    CASE cmd = "merge-base --is-ancestor" -> 1
      [] cmd = "log --cherry-mark" -> 2
      [] cmd \in {"merge-base", "diff-tree", "ls-tree branch", "ls-tree main"} -> 3
      [] cmd \in {"rev-parse --verify origin/", "rev-list --count origin/.."} -> 4
      [] cmd = "rev-list --count ..main" -> 5

\* C24: the commands of one branch's classification come check by check in the
\* order ancestry, equivalent-patch, content equivalence, unpushed, needs-rebase,
\* none skipped, and a command of a check is issued only if every earlier check
\* returned false: a strategy that succeeded is the last one to run, and the
\* divergence checks run only after all three strategies returned false.
C24_ChecksInOrder ==
    \A i \in 1..Len(tasks) :
        LET c == tasks[i].cmds
            p == Answers(i)
        IN  /\ CheckOf(c[1]) = 1
            /\ \A k \in 2..Len(c) :
                  \/ CheckOf(c[k]) = CheckOf(c[k - 1]) + 1
                  \/ CheckOf(c[k]) = CheckOf(c[k - 1]) /\ CheckOf(c[k]) \in {3, 4}
            /\ \A k \in 1..Len(c) :
                  /\ CheckOf(c[k]) > 1 =>
                        tasks[i].byAncestry = "false" /\ ~IsMergedByAncestry(p.ancestry)
                  /\ CheckOf(c[k]) > 2 =>
                        tasks[i].byCherry = "false" /\ ~IsMergedByCherryMark(p.cherry)
                  /\ CheckOf(c[k]) > 3 =>
                        tasks[i].byContent = "false" /\ ~IsMergedByContent(p)
                  /\ CheckOf(c[k]) > 4 => ~HasUnpushedCommits(p)
            /\ "true" \in {tasks[i].byAncestry, tasks[i].byCherry, tasks[i].byContent} =>
                  /\ tasks[i].status = "merged"
                  /\ \A k \in 1..Len(c) : CheckOf(c[k]) <= 3

\* C24 witness: a classification that went through all five checks, the content
\* check having compared a file, and ended on the last of them.
C24_Witness ==
    \E i \in ClassifiedTasks :
        /\ { CheckOf(tasks[i].cmds[k]) : k \in 1..Len(tasks[i].cmds) } = 1..5
        /\ "ls-tree main" \in Range(tasks[i].cmds)
        /\ tasks[i].status = "needs-rebase"

(***************************************************************************)
(* Termination of a pass.                                                  *)
(***************************************************************************)
\* Some query of task i failed with a non-zero exit status beyond the ancestry
\* test (whose exit status is its answer).
CommandFailed(i) ==
    LET p == Answers(i)
        c == Range(tasks[i].cmds)
    IN  \/ "log --cherry-mark" \in c /\ ~p.cherry.success
        \/ "merge-base" \in c /\ ~p.mergeBase.success
        \/ "diff-tree" \in c /\ ~p.content.diffTree.success
        \/ "rev-list --count origin/.." \in c /\ ~p.ahead.success
        \/ "rev-list --count ..main" \in c /\ ~p.behind.success

\* The pass is over: every task finished and analyzeBranches returned one
\* BranchInfo per enumerated branch, each with the status that git's answers about
\* that branch alone give it.
PassCompleted ==
    /\ aPc = "returned"
    /\ \A i \in 1..Len(tasks) : tasks[i].pc = "done"
    /\ Len(results) = Len(GetLocalBranches(listing))
    /\ \A i \in 1..Len(results) :
          /\ results[i].name = GetLocalBranches(listing)[i]
          /\ results[i].status \in Statuses
          /\ results[i].status = ClassifyBranch(repo[results[i].name])

\* C25: provided every issued git command eventually returns, a started pass
\* eventually completes: every task finishes and analyzeBranches returns one
\* BranchInfo per enumerated branch; a command that fails in one task neither
\* stops a sibling task nor changes the status the sibling gets.
C25_PassRunsToCompletion == <>PassCompleted

\* C25 witness: a pass over two branches has completed; a query of the first
\* branch's task had failed and that task finished first, the second branch was
\* classified 'needs-rebase' all the same.
C25_Witness ==
    /\ PassCompleted
    /\ Len(results) = 2
    /\ CommandFailed(1)
    /\ ~CommandFailed(2)
    /\ results[2].status = "needs-rebase"
    /\ Len(progress) = 2
    /\ progress[1].branch = branches[1]

(***************************************************************************)
(* Mutations are sequential.                                               *)
(***************************************************************************)
\* The commands of the sweep that change the repository's branches or worktrees.
Mutating == {"worktree remove", "branch -D"}

\* Where a branch stands in the selection.
SelectionIndex(b) == CHOOSE p \in 1..Len(selected) : selected[p] = b

\* The fetches of fastForwardBranches run one at a time, in listing order, each
\* answered and recorded before the next is issued.
FetchesSequential ==
    LET lines  == FFLines
        lineOf == [j \in 1..Len(fetches) |->
                     {k \in 1..Len(lines) : LineBranch(lines[k]) = fetches[j].dst}]
    IN  /\ \A j \in 1..Len(fetches) :
              /\ fetches[j].state = "inflight" => j = Len(fetches) /\ ffPc = "fetching"
              /\ lineOf[j] # {}
              /\ j <= Len(ffResults) <=> fetches[j].state # "inflight"
              /\ j <= Len(ffResults) => ffResults[j].branch = fetches[j].dst
        /\ \A i, j \in 1..Len(fetches) :
              i < j => \A a \in lineOf[i], b \in lineOf[j] : a < b

\* The commands of the deletion loop run one at a time, in selection order, a
\* branch's worktree removal right before the deletion of its ref.
DeletionsSequential ==
    /\ \A k \in 1..Len(cmdLog) : cmdLog[k].state = "inflight" => k = Len(cmdLog)
    /\ \A k \in 1..Len(cmdLog) :
          cmdLog[k].cmd \in Mutating => cmdLog[k].branch \in Range(selected)
    /\ \A j, k \in 1..Len(cmdLog) :
          (j < k /\ cmdLog[j].cmd \in Mutating /\ cmdLog[k].cmd \in Mutating) =>
              \/ SelectionIndex(cmdLog[j].branch) < SelectionIndex(cmdLog[k].branch)
              \/ /\ cmdLog[j].branch = cmdLog[k].branch
                 /\ k = j + 1
                 /\ cmdLog[j].cmd = "worktree remove"
                 /\ cmdLog[k].cmd = "branch -D"

\* C26: the mutating commands run strictly one at a time: no two are ever in
\* flight, fastForwardBranches fetches in listing order and the deletion loop
\* removes and deletes in selection order, each command answered before the next
\* is issued.
C26_MutationsOneAtATime == FetchesSequential /\ DeletionsSequential

\* C26 witness: a sweep was handed topic before feature and has finished, having
\* deleted topic and then feature.
C26_Witness ==
    /\ dPc = "finished"
    /\ selected = <<"topic", "feature">>
    /\ deletedOut = selected
    /\ Len(SelectSeq(cmdLog, LAMBDA c : c.cmd \in Mutating)) = 2

\* An interactive sweep has finished after removing a worktree and deleting two
\* branches.
WorktreeThenTwoDeletions ==
    /\ dPc = "finished"
    /\ Len(deletedOut) = 2
    /\ Len(SelectSeq(cmdLog, LAMBDA c : c.cmd \in Mutating)) = 3

\* A fastForwardBranches call has returned after two fetches, the first of which
\* failed.
TwoFetchesDone ==
    /\ ffPc = "returned"
    /\ Len(fetches) = 2
    /\ fetches[1].state = "failed"
    /\ fetches[2].state = "ok"

(***************************************************************************)
(* The pass only reads.                                                    *)
(***************************************************************************)
\* The git commands that read refs, commits and trees and write nothing.
ReadOnlyQueries ==
    { "merge-base --is-ancestor", "log --cherry-mark", "merge-base", "diff-tree",
      "ls-tree branch", "ls-tree main", "rev-parse --verify origin/",
      "rev-list --count origin/..", "rev-list --count ..main" }

\* C27: analyzeBranches leaves the repository unchanged: every command a
\* classification task issues is a read-only query, and no step of the pass, in
\* any interleaving of the tasks, changes what git lists or answers.
C27_PassLeavesRepositoryUnchanged ==
    /\ [](QueriesIssued \subseteq ReadOnlyQueries)
    /\ [][repo' = repo /\ listing' = listing]_vars

\* C27 witness: a pass over two branches has returned after its tasks issued every
\* kind of query between them.
C27_Witness ==
    /\ aPc = "returned"
    /\ Len(results) = 2
    /\ QueriesIssued = ReadOnlyQueries

(***************************************************************************)
(* Failing queries inside the content and divergence checks.               *)
(***************************************************************************)
\* The merge-base lookup of task i was issued, failed, and has been answered.
MergeBaseFailed(i) ==
    /\ "merge-base" \in Range(tasks[i].cmds)
    /\ tasks[i].pc # "mergeBase"
    /\ ~Answers(i).mergeBase.success

\* The command task i issued right after its merge-base lookup.
AfterMergeBaseCmd(i) ==
    LET c == tasks[i].cmds
        k == CHOOSE j \in 1..Len(c) : c[j] = "merge-base"
    IN  Nth(c, k + 1)

\* C28: when the merge-base lookup of the branch and main fails,
\* isMergedByContent returns false at once: no diff-tree or ls-tree is issued,
\* the next command is the first of hasUnpushedCommits, and the branch ends up
\* 'unpushed', 'needs-rebase' or 'active' as the divergence checks decide.
C28_MergeBaseFailureIsNotMerged ==
    \A i \in 1..Len(tasks) :
        MergeBaseFailed(i) =>
            /\ tasks[i].byContent = "false"
            /\ ~IsMergedByContent(Answers(i))
            /\ Range(tasks[i].cmds) \cap {"diff-tree", "ls-tree branch", "ls-tree main"} = {}
            /\ AfterMergeBaseCmd(i) = "rev-parse --verify origin/"
            /\ i \in ClassifiedTasks =>
                  tasks[i].status =
                      IF HasUnpushedCommits(Answers(i)) THEN "unpushed"
                      ELSE IF NeedsRebase(Answers(i)) THEN "needs-rebase"
                      ELSE "active"

\* C28 witness: a branch with unrelated histories whose diff-tree would have named
\* a file identical in main has been classified 'needs-rebase'.
C28_Witness ==
    \E i \in ClassifiedTasks :
        /\ MergeBaseFailed(i)
        /\ Answers(i).content.diffTree.success
        /\ Answers(i).content.diffTree.stdout # <<>>
        /\ ContentLoop(Answers(i).content, 1)
        /\ tasks[i].status = "needs-rebase"

\* A count query that failed, or printed something that is no number.
NoCount(res) ==
    \/ ~res.success
    \/ res.stdout = <<>>
    \/ \E k \in 1..Len(res.stdout) : ~IsDigit(res.stdout[k])

\* C29: a count query that fails or prints no number makes its predicate false:
\* such an answer to hasUnpushedCommits' query sends a tracked, non-merged branch
\* on to needsRebase, such an answer to needsRebase's query leaves it 'active',
\* and with both it is 'active'.
C29_UnreadableCountIsFalse ==
    /\ \A res \in CountAnswers : NoCount(res) => ~CountIsPositive(res)
    /\ \A i \in ClassifiedTasks :
          (NotMerged(i) /\ HasRemoteRef(i)) =>
              /\ NoCount(Answers(i).ahead) =>
                    /\ tasks[i].status # "unpushed"
                    /\ "rev-list --count ..main" \in Range(tasks[i].cmds)
              /\ ("rev-list --count ..main" \in Range(tasks[i].cmds)
                     /\ NoCount(Answers(i).behind)) =>
                    tasks[i].status = "active"
              /\ (NoCount(Answers(i).ahead) /\ NoCount(Answers(i).behind)) =>
                    tasks[i].status = "active"

\* C29 witness: a non-merged branch whose origin/<branch> resolves, whose ahead
\* count failed and whose behind count printed no number, is classified 'active'.
C29_Witness ==
    \E i \in ClassifiedTasks :
        /\ NotMerged(i)
        /\ HasRemoteRef(i)
        /\ Answers(i).ahead = Failed
        /\ Answers(i).behind = Ok(NonNumeric)
        /\ tasks[i].status = "active"

(***************************************************************************)
(* The error text of a failed fast-forward.                                *)
(***************************************************************************)
\* C30: the error of a failed fast-forward is what the fetch wrote to stdout,
\* trimmed; what it wrote to stderr is in no result, so the error is empty
\* whenever the failing fetch wrote only to stderr.
C30_ErrorIsTrimmedStdout ==
    \A k \in 1..Len(ffResults) :
        ~ffResults[k].updated =>
            /\ fetches[k].state = "failed"
            /\ ffResults[k].error = Trim(fetches[k].stdout)
            /\ fetches[k].stdout = <<>> => ffResults[k].error = <<>>

\* C30 witness: a call returned two failures, one whose fetch wrote its message
\* to stderr only and whose error is empty, one whose fetch also wrote to stdout
\* and whose error is that text without the surrounding blanks.
C30_Witness ==
    /\ ffPc = "returned"
    /\ \E j, k \in 1..Len(ffResults) :
          /\ ~ffResults[j].updated
          /\ fetches[j].stdout = <<>>
          /\ fetches[j].stderr # <<>>
          /\ ffResults[j].error = <<>>
          /\ ~ffResults[k].updated
          /\ fetches[k].stdout = <<" ", "hint", " ">>
          /\ ffResults[k].error = <<"hint">>

=============================================================================
